---- MODULE Spec2Model ----
(***************************************************************************)
(* Model of the validator registry (type manager) of luxfi/validators.     *)
(*                                                                         *)
(* The registry is a Go map of maps of pointers:                           *)
(*   validators map[ids.ID]map[ids.NodeID]*GetValidatorOutput              *)
(* A Go map is modelled as a TLA+ function whose DOMAIN is the key set, a  *)
(* pointer as an address into the variable heap.  Unsigned 64-bit          *)
(* arithmetic is modelled at a reduced width: values are 0..MaxUint64 and  *)
(* += / -= wrap modulo MaxUint64 + 1, exactly as uint64 wraps modulo 2^64. *)
(***************************************************************************)
EXTENDS Integers, Sequences, FiniteSets, TLC

VARIABLES
    validators,   \* m.validators : network -> (node -> address of the record)
    heap,         \* the GetValidatorOutput objects, by address
    listeners,    \* m.listeners : sequence of registered listeners
    added,        \* per listener object: the OnValidatorAdded calls it received,
                  \* each with the registry operation that made the call
    snap,         \* a map a caller obtained from GetMap and still holds
    last,         \* the call that returned last: its name, its arguments and
                  \* the weight of the record it found (-1: it found none)
    err,          \* the error that call returned
    mu,           \* m.mu : the thread holding the exclusive lock ("" when free)
    pc,           \* per thread: where it is in the operation it runs
    loc,          \* per thread: the arguments and loop state of that operation
    effects,      \* history: the AddStaker calls of the threads, in the order
                  \* in which they wrote to the registry
    regAt,        \* history: per entry of m.listeners, the length of effects
                  \* when the entry was appended
    vdrSet,       \* FlattenValidatorSet: the snapshot passed in
    todo,         \* FlattenValidatorSet: the keys of vdrSet the range loop has
                  \* still to visit
    pkToValidator, \* FlattenValidatorSet: canonical key bytes -> canonical entry
    totalWeight,  \* FlattenValidatorSet: the running total
    ret,          \* FlattenValidatorSet: what the call returned (NoRet before)
    vdrs,         \* FilterValidators: the canonical validators passed in
    indices,      \* FilterValidators: the selector passed in
    filtered,     \* FilterValidators: what the call returned (NoRet before)
    sumOf,        \* SumWeight: the canonical validators passed in
    summed,       \* SumWeight: what the call returned (NoRet before)
    calculators,  \* lockedCalculator.calculators : network -> strategy
    fallback,     \* lockedCalculator.fallback
    lmu,          \* lockedCalculator.mu : the thread holding the exclusive lock
                  \* and the threads holding the shared lock
    started,      \* history: the (network, strategy) pairs of the SetCalculator
                  \* calls made so far
    totals        \* history: per network, the values TotalLight had in the
                  \* states the registry has been in while threads read it

vars == <<validators, heap, listeners, added, snap, last, err, mu, pc, loc, effects, regAt,
          vdrSet, todo, pkToValidator, totalWeight, ret, vdrs, indices, filtered,
          sumOf, summed, calculators, fallback, lmu, started, totals>>

\* the variables only the threads of the concurrent specification change
threadVars == <<mu, pc, loc, effects, regAt>>

\* the variables of one call of FlattenValidatorSet
flattenVars == <<vdrSet, todo, pkToValidator, totalWeight, ret>>

\* the variables of one call of FilterValidators
filterVars == <<vdrs, indices, filtered>>

\* the variables of one call of SumWeight
sumVars == <<sumOf, summed>>

\* the variables of the locked uptime calculator
uptimeVars == <<calculators, fallback, lmu, started>>

\* the history kept for the threads that read the registry
readVars == <<totals>>

\* the variables the registry does not touch
warpVars == <<flattenVars, filterVars, sumVars, uptimeVars, readVars>>

----------------------------------------------------------------------------
(* Bounds of the model *)

\* the largest value of the unsigned integer type standing for uint64
MaxUint64 == 3
\* the longest notification log a listener may hold
MaxLog == 2
\* the most entries m.listeners may hold
MaxListeners == 2
\* the most AddStaker calls the threads of the concurrent specification make
MaxEffects == 2

NetIDs == {"netA", "netB"}
NodeIDs == {"v1", "v2"}
\* public keys; the empty string is the nil / empty key
PubKeys == {"", "keyX", "keyY"}
TxIDs == {"tx1", "tx2"}
ListenerIDs == {"L1", "L2"}
Threads == {"t1", "t2"}
Uint64 == 0..MaxUint64
\* two objects per (network, node): the one the registry points to and one
\* an older snapshot may still point to
Gens == {0, 1}

----------------------------------------------------------------------------
(* Go primitives *)

\* uint64 addition and subtraction wrap modulo 2^64 (Go spec, integer overflow)
WrapAdd(a, b) == (a + b) % (MaxUint64 + 1)

WrapSub(a, b) == (a - b + MaxUint64 + 1) % (MaxUint64 + 1)

\* m[k] = v on a Go map
MapPut(m, k, v) == [x \in (DOMAIN m) \cup {k} |-> IF x = k THEN v ELSE m[x]]

\* delete(m, k) on a Go map
MapDelete(m, k) == [x \in (DOMAIN m) \ {k} |-> m[x]]

\* make(map[...]...) : the empty map
EmptyMap == << >>

\* the elements of a slice
Range(s) == {s[i] : i \in 1..Len(s)}

\* the error value nil
NilErr == "nil"

----------------------------------------------------------------------------
(* The heap of GetValidatorOutput objects *)

\* the addresses some map of the registry points to
RegistryRefs(vals) == UNION {{vals[n][v] : v \in DOMAIN vals[n]} : n \in DOMAIN vals}

\* the addresses the caller's snapshot points to
SnapRefs(s) == {s[v] : v \in DOMAIN s}

\* garbage collection: an object nothing points to is gone
Collect(h, vals, s) ==
    [a \in (DOMAIN h) \cap (RegistryRefs(vals) \cup SnapRefs(s)) |-> h[a]]

\* &GetValidatorOutput{...} : the address of a new object, one that no
\* snapshot points to (the registry's own pointer is overwritten by the caller)
NewAddr(n, v) ==
    LET g == CHOOSE x \in Gens : <<n, v, x>> \notin SnapRefs(snap)
                                 /\ \A y \in Gens : (<<n, v, y>> \notin SnapRefs(snap)) => x <= y
    IN  <<n, v, g>>

\* a literal that leaves TxID out, so that it is the zero ID
NewRecordWithoutTxID(v, pk, tx, w) ==
    [NodeID |-> v, PublicKey |-> pk, Light |-> w, Weight |-> w, TxID |-> ""]

\* the composite literal of AddStaker
NewRecord(v, pk, tx, w) ==
    [NodeID |-> v, PublicKey |-> pk, Light |-> w, Weight |-> w, TxID |-> tx]

----------------------------------------------------------------------------
(* Read accessors of the registry, as functions of the current state *)

\* the nil pointer
NilPtr == <<"", "", 0>>

NumNets == Cardinality(DOMAIN validators)

\* the pointer stored for (n, v), and whether there is one
GetValidator(n, v) ==
    IF n \in DOMAIN validators /\ v \in DOMAIN validators[n]
    THEN [val |-> validators[n][v], ok |-> TRUE]
    ELSE [val |-> NilPtr, ok |-> FALSE]

GetLight(n, v) ==
    LET r == GetValidator(n, v)
    IN  IF r.ok THEN heap[r.val].Light ELSE 0

GetWeight(n, v) == GetLight(n, v)

\* total += v.Light over a map of pointers, in uint64
RECURSIVE SumLight(_)
SumLight(refs) ==
    IF refs = {} THEN 0
    ELSE LET a == CHOOSE x \in refs : TRUE
         IN  WrapAdd(heap[a].Light, SumLight(refs \ {a}))

\* GetValidators: a validatorSet over the network's own map, or the emptySet
GetValidators(n) ==
    IF n \in DOMAIN validators
    THEN [set |-> "validatorSet", Len |-> Cardinality(DOMAIN validators[n]),
          Light |-> SumLight({validators[n][v] : v \in DOMAIN validators[n]}),
          err |-> NilErr]
    ELSE [set |-> "emptySet", Len |-> 0, Light |-> 0, err |-> NilErr]

TotalLight(n) ==
    LET s == GetValidators(n)
    IN  IF s.err # NilErr THEN [val |-> 0, err |-> s.err]
        ELSE [val |-> s.Light, err |-> NilErr]

TotalWeight(n) == TotalLight(n)

Count(n) == IF n \in DOMAIN validators THEN Cardinality(DOMAIN validators[n]) ELSE 0

\* NumValidators is an alias for Count
NumValidators(n) == Count(n)

\* the node IDs of a network (a slice in arbitrary order; nil when absent)
GetValidatorIDs(n) == IF n \in DOMAIN validators THEN DOMAIN validators[n] ELSE {}

\* a copy that leaves out the records of weight 0
GetMapNonZero(n) ==
    IF n \in DOMAIN validators
    THEN [k \in {v \in DOMAIN validators[n] : heap[validators[n][v]].Light # 0} |-> validators[n][k]]
    ELSE EmptyMap

\* GetMap: a new map holding the same pointers as the network's map
GetMap(n) ==
    IF n \in DOMAIN validators
    THEN [k \in DOMAIN validators[n] |-> validators[n][k]]
    ELSE EmptyMap

----------------------------------------------------------------------------
(* Mutating operations.  Each runs from m.mu.Lock() to the deferred        *)
(* m.mu.Unlock(), so with one caller at a time it is one atomic step.      *)

\* what the variable last records of a call
Call(op, n, v, pk, tx, w, old) ==
    [op |-> op, net |-> n, node |-> v, key |-> pk, tx |-> tx, arg |-> w, old |-> old]

\* the weight of the record a call on (n, v) finds, -1 when it finds none
Found(n, v) ==
    IF n \in DOMAIN validators /\ v \in DOMAIN validators[n]
    THEN heap[validators[n][v]].Light
    ELSE -1

\* the locals of a thread that runs no operation
NoLocals ==
    [net |-> "", node |-> "", light |-> 0, old |-> -1, listener |-> "", i |-> 0, todo |-> << >>]

\* no call made yet
NoRet == [err |-> "none"]

\* no call of SumWeight made
SumIdle ==
    /\ sumOf = << >>
    /\ summed = NoRet

\* NewLockedCalculator(), no thread holding its lock
UptimeIdle ==
    /\ calculators = EmptyMap
    /\ fallback = "NoOpCalculator"
    /\ lmu = [writer |-> "", readers |-> {}]
    /\ started = << >>

\* no thread has read the registry: TotalLight was 0 for every network
ReadIdle == totals = [n \in NetIDs |-> {0}]

\* no call of FlattenValidatorSet or FilterValidators made
CanonicalIdle ==
    /\ vdrSet = EmptyMap
    /\ todo = {}
    /\ pkToValidator = EmptyMap
    /\ totalWeight = 0
    /\ ret = NoRet
    /\ vdrs = << >>
    /\ indices = 0
    /\ filtered = NoRet

\* no call of the canonical set functions in progress
WarpIdle ==
    /\ SumIdle
    /\ UptimeIdle
    /\ ReadIdle
    /\ CanonicalIdle

\* NewManager()
InitManager ==
    /\ validators = EmptyMap
    /\ heap = EmptyMap
    /\ listeners = << >>
    /\ added = [l \in ListenerIDs |-> << >>]
    /\ snap = EmptyMap
    /\ last = Call("NewManager", "", "", "", "", 0, -1)
    /\ err = NilErr
    /\ mu = ""
    /\ pc = [t \in Threads |-> "idle"]
    /\ loc = [t \in Threads |-> NoLocals]
    /\ effects = << >>
    /\ regAt = << >>

Init == InitManager /\ WarpIdle

\* if m.validators[netID] == nil { m.validators[netID] = make(...) }
EnsureNet(vals, n) == IF n \in DOMAIN vals THEN vals ELSE MapPut(vals, n, EmptyMap)

\* for _, listener := range m.listeners { listener.OnValidatorAdded(...) }
NotifyAdded(log, n, v, w) ==
    LET times(l) == Cardinality({i \in 1..Len(listeners) : listeners[i] = l})
        RECURSIVE rep(_, _)
        rep(s, k) == IF k = 0 THEN s ELSE rep(Append(s, <<n, v, w, "AddStaker">>), k - 1)
    IN  [l \in DOMAIN log |-> rep(log[l], times(l))]

\* no listener's log outgrows the model
LogRoom(k) ==
    \A l \in ListenerIDs :
        Len(added[l]) + k * Cardinality({i \in 1..Len(listeners) : listeners[i] = l}) <= MaxLog

\* m.validators after m.validators[netID][nodeID] = &GetValidatorOutput{...}
StakerMap(n, v) ==
    LET vals1 == EnsureNet(validators, n)
    IN  MapPut(vals1, n, MapPut(vals1[n], v, NewAddr(n, v)))

\* the heap with the new object
StakerHeap(n, v, pk, tx, w) == MapPut(heap, NewAddr(n, v), NewRecord(v, pk, tx, w))

AddStaker(n, v, pk, tx, w) ==
    /\ LogRoom(1)
    /\ validators' = StakerMap(n, v)
    /\ heap' = Collect(StakerHeap(n, v, pk, tx, w), StakerMap(n, v), snap)
    /\ added' = NotifyAdded(added, n, v, w)
    /\ last' = Call("AddStaker", n, v, pk, tx, w, Found(n, v))
    /\ err' = NilErr
    /\ UNCHANGED <<listeners, snap>>
    /\ UNCHANGED threadVars
    /\ UNCHANGED warpVars

\* an AddWeight that forgets the alias field
AddWeightRecordLightOnly(r, d) == [r EXCEPT !.Light = WrapAdd(@, d)]

\* val.Light += light; val.Weight += light
AddWeightRecord(r, d) ==
    [r EXCEPT !.Light = WrapAdd(@, d), !.Weight = WrapAdd(@, d)]

AddWeight(n, v, d) ==
    /\ LET vals1 == EnsureNet(validators, n)
       IN  /\ validators' = vals1
           /\ IF v \notin DOMAIN vals1[n]
              THEN heap' = heap
              ELSE heap' = [heap EXCEPT ![vals1[n][v]] = AddWeightRecord(@, d)]
    /\ last' = Call("AddWeight", n, v, "", "", d, Found(n, v))
    /\ err' = NilErr
    /\ UNCHANGED <<listeners, added, snap>>
    /\ UNCHANGED threadVars
    /\ UNCHANGED warpVars

\* a RemoveWeight that subtracts without the comparison, and so underflows
RemoveWeightRecordUnchecked(r, d) ==
    [r EXCEPT !.Light = WrapSub(@, d), !.Weight = WrapSub(@, d)]

\* if val.Light >= light { both -= light } else { both = 0 }
RemoveWeightRecord(r, d) ==
    IF r.Light >= d
    THEN [r EXCEPT !.Light = WrapSub(@, d), !.Weight = WrapSub(@, d)]
    ELSE [r EXCEPT !.Light = 0, !.Weight = 0]

\* a RemoveWeight that drops the whole network with the record
DeleteIfZeroWholeNet(vals, n, v, r) == IF r.Light = 0 THEN MapDelete(vals, n) ELSE vals

\* if val.Light == 0 { delete(m.validators[netID], nodeID); if len(...) == 0 { delete(m.validators, netID) } }
DeleteIfZero(vals, n, v, r) ==
    IF r.Light = 0
    THEN LET sub == MapDelete(vals[n], v)
         IN  IF Cardinality(DOMAIN sub) = 0
             THEN MapDelete(vals, n)
             ELSE MapPut(vals, n, sub)
    ELSE vals

\* a RemoveWeight that reports a missing network or node as an error
RemoveWeightErrorNotFound(n, v) == IF Found(n, v) = -1 THEN "not found" ELSE NilErr

\* the error RemoveWeight returns: nil on each of its three return paths
RemoveWeightError(n, v) == NilErr

\* a RemoveWeight that tells every listener of the change
NotifyRemovedCalls(log, n, v, w) ==
    [l \in DOMAIN log |->
        IF l \in Range(listeners) THEN Append(log[l], <<n, v, w, "RemoveWeight">>) ELSE log[l]]

\* RemoveWeight has no loop over m.listeners: the listeners' logs after it
NotifyRemoved(log, n, v, w) == log

RemoveWeight(n, v, d) ==
    /\ IF n \notin DOMAIN validators
       THEN UNCHANGED <<validators, heap>>
       ELSE IF v \notin DOMAIN validators[n]
       THEN UNCHANGED <<validators, heap>>
       ELSE LET a == validators[n][v]
                r == RemoveWeightRecord(heap[a], d)
                vals1 == DeleteIfZero(validators, n, v, r)
            IN  /\ validators' = vals1
                /\ heap' = Collect([heap EXCEPT ![a] = r], vals1, snap)
    /\ last' = Call("RemoveWeight", n, v, "", "", d, Found(n, v))
    /\ err' = RemoveWeightError(n, v)
    /\ added' = NotifyRemoved(added, n, v, d)
    /\ UNCHANGED <<listeners, snap>>
    /\ UNCHANGED threadVars
    /\ UNCHANGED warpVars

\* the registry driven by one caller that stakes without keys: every
\* network, node and weight
Next ==
    \/ \E n \in NetIDs, v \in NodeIDs, w \in Uint64 : AddStaker(n, v, "", "tx1", w)
    \/ \E n \in NetIDs, v \in NodeIDs, d \in Uint64 : AddWeight(n, v, d)
    \/ \E n \in NetIDs, v \in NodeIDs, d \in Uint64 : RemoveWeight(n, v, d)

Spec == Init /\ [][Next]_vars

\* the registry driven by one caller on one network: every key, transaction
\* and weight
NextFields ==
    \/ \E v \in NodeIDs, pk \in PubKeys, tx \in TxIDs, w \in Uint64 :
          AddStaker("netA", v, pk, tx, w)
    \/ \E v \in NodeIDs, d \in Uint64 : AddWeight("netA", v, d)
    \/ \E v \in NodeIDs, d \in Uint64 : RemoveWeight("netA", v, d)

SpecFields == Init /\ [][NextFields]_vars

----------------------------------------------------------------------------
(* A caller that keeps the map GetMap returned and changes it *)

\* vmap := m.GetMap(netID)
CallGetMap(n) ==
    /\ snap' = GetMap(n)
    /\ heap' = Collect(heap, validators, GetMap(n))
    /\ last' = Call("GetMap", n, "", "", "", 0, -1)
    /\ UNCHANGED <<validators, listeners, added, err>>
    /\ UNCHANGED threadVars
    /\ UNCHANGED warpVars

\* delete(vmap, nodeID)
SnapDelete(k) ==
    /\ k \in DOMAIN snap
    /\ snap' = MapDelete(snap, k)
    /\ heap' = Collect(heap, validators, MapDelete(snap, k))
    /\ last' = Call("delete(vmap, k)", "", "", "", "", 0, -1)
    /\ UNCHANGED <<validators, listeners, added, err>>
    /\ UNCHANGED threadVars
    /\ UNCHANGED warpVars

\* vmap[k] = vmap[from]
SnapInsert(k, from) ==
    /\ from \in DOMAIN snap
    /\ k # from
    /\ snap' = MapPut(snap, k, snap[from])
    /\ heap' = Collect(heap, validators, MapPut(snap, k, snap[from]))
    /\ last' = Call("vmap[k] = p", "", "", "", "", 0, -1)
    /\ UNCHANGED <<validators, listeners, added, err>>
    /\ UNCHANGED threadVars
    /\ UNCHANGED warpVars

\* vmap[k].Light = w
SnapSetLight(k, w) ==
    /\ k \in DOMAIN snap
    /\ heap' = [heap EXCEPT ![snap[k]].Light = w]
    /\ last' = Call("vmap[k].Light = w", "", "", "", "", 0, -1)
    /\ UNCHANGED <<validators, listeners, added, snap, err>>
    /\ UNCHANGED threadVars
    /\ UNCHANGED warpVars

\* the registry of one network, staked with weight 1, and a caller working
\* on a map from GetMap
NextCaller ==
    \/ \E v \in NodeIDs : AddStaker("netA", v, "", "tx1", 1)
    \/ \E v \in NodeIDs : RemoveWeight("netA", v, 1)
    \/ \E n \in NetIDs : CallGetMap(n)
    \/ \E k \in NodeIDs : SnapDelete(k)
    \/ \E k \in NodeIDs, from \in NodeIDs : SnapInsert(k, from)
    \/ \E k \in NodeIDs, w \in {0, MaxUint64} : SnapSetLight(k, w)

SpecCaller == Init /\ [][NextCaller]_vars

----------------------------------------------------------------------------
(* Listener registration *)

\* the (network, node) pairs that have a record
Records(vals) == {p \in NetIDs \X NodeIDs : p[1] \in DOMAIN vals /\ p[2] \in DOMAIN vals[p[1]]}

\* a registration that appends the listener and replays nothing
ReplayOrdersNone(vals) == {<< >>}

\* the orders in which the nested range loops of RegisterCallbackListener can
\* visit the records: networks in any order, the nodes of one network in any
\* order, each network's nodes together
ReplayOrders(vals) ==
    LET recs == Records(vals)
        N == Cardinality(recs)
    IN  {s \in [1..N -> recs] :
            /\ \A i, j \in 1..N : s[i] = s[j] => i = j
            /\ \A i, j, k \in 1..N :
                  (i < j /\ j < k /\ s[i][1] = s[k][1]) => s[j][1] = s[i][1]}

\* listener.OnValidatorAdded(netID, nodeID, val.Light) for each visited record
Replay(order) ==
    [i \in 1..Len(order) |->
        <<order[i][1], order[i][2], heap[validators[order[i][1]][order[i][2]]].Light,
          "RegisterCallbackListener">>]

RegisterCallbackListener(l) ==
    /\ Len(listeners) < MaxListeners
    /\ Len(added[l]) + Cardinality(Records(validators)) <= MaxLog
    /\ listeners' = Append(listeners, l)
    /\ \E order \in ReplayOrders(validators) :
          added' = [added EXCEPT ![l] = @ \o Replay(order)]
    /\ last' = Call("RegisterCallbackListener", "", l, "", "", 0, -1)
    /\ UNCHANGED <<validators, heap, snap, err>>
    /\ UNCHANGED threadVars
    /\ UNCHANGED warpVars

\* the registry and its listeners: staking with weight 2, removing weight 1
\* and registrations
NextListen ==
    \/ \E n \in NetIDs, v \in NodeIDs : AddStaker(n, v, "", "tx1", 2)
    \/ \E n \in NetIDs, v \in NodeIDs : RemoveWeight(n, v, 1)
    \/ \E l \in ListenerIDs : RegisterCallbackListener(l)

SpecListen == Init /\ [][NextListen]_vars

\* one network with one listener registered at any time, once or more:
\* staking, adding and removing weight 1
NextNotify ==
    \/ \E v \in NodeIDs : AddStaker("netA", v, "", "tx1", 1)
    \/ \E v \in NodeIDs : AddWeight("netA", v, 1)
    \/ \E v \in NodeIDs : RemoveWeight("netA", v, 1)
    \/ RegisterCallbackListener("L1")

SpecNotify == Init /\ [][NextNotify]_vars

----------------------------------------------------------------------------
(* Threads calling AddStaker and RegisterCallbackListener concurrently.    *)
(* A call is a thread's steps from m.mu.Lock() to the deferred             *)
(* m.mu.Unlock(); each iteration of a notification loop is a step.         *)

\* a Lock that excludes nobody
LockAvailableAlways == TRUE

\* a lock that admits the thread that holds it a second time
LockReentrant == mu = "" \/ \E t \in Threads : mu = t /\ pc[t] = "AddWeight.lock"

\* m.mu.Lock() returns only while no thread holds the lock
LockAvailable == mu = ""

\* the threads that have the lock for an AddStaker that has not written yet
AboutToStore == {t \in Threads : pc[t] = "AddStaker.store"}

\* AddStaker(n, v, nil, tx1, w): m.mu.Lock()
TAddStakerLock(t, n, v, w) ==
    /\ pc[t] = "idle"
    /\ LockAvailable
    /\ Len(effects) + Cardinality(AboutToStore) < MaxEffects
    /\ LogRoom(1)
    /\ mu' = t
    /\ pc' = [pc EXCEPT ![t] = "AddStaker.store"]
    /\ loc' = [loc EXCEPT ![t] = [NoLocals EXCEPT !.net = n, !.node = v, !.light = w]]
    /\ UNCHANGED <<validators, heap, listeners, added, snap, last, err, effects, regAt>>
    /\ UNCHANGED warpVars

\* AddStaker: the map write
TAddStakerStore(t) ==
    /\ pc[t] = "AddStaker.store"
    /\ validators' = StakerMap(loc[t].net, loc[t].node)
    /\ heap' = Collect(StakerHeap(loc[t].net, loc[t].node, "", "tx1", loc[t].light),
                       StakerMap(loc[t].net, loc[t].node), snap)
    /\ effects' = Append(effects, <<loc[t].net, loc[t].node, loc[t].light, t>>)
    /\ pc' = [pc EXCEPT ![t] = "AddStaker.notify"]
    /\ loc' = [loc EXCEPT ![t].i = 1, ![t].old = Found(loc[t].net, loc[t].node)]
    /\ UNCHANGED <<listeners, added, snap, last, err, mu, regAt>>
    /\ UNCHANGED warpVars

\* AddStaker: one iteration of the loop over m.listeners
TAddStakerNotify(t) ==
    /\ pc[t] = "AddStaker.notify"
    /\ loc[t].i <= Len(listeners)
    /\ added' = [added EXCEPT ![listeners[loc[t].i]] =
                    Append(@, <<loc[t].net, loc[t].node, loc[t].light, "AddStaker">>)]
    /\ loc' = [loc EXCEPT ![t].i = @ + 1]
    /\ UNCHANGED <<validators, heap, listeners, snap, last, err, mu, pc, effects, regAt>>
    /\ UNCHANGED warpVars

\* AddStaker: return nil and the deferred m.mu.Unlock()
TAddStakerReturn(t) ==
    /\ pc[t] = "AddStaker.notify"
    /\ loc[t].i > Len(listeners)
    /\ mu' = ""
    /\ pc' = [pc EXCEPT ![t] = "idle"]
    /\ loc' = [loc EXCEPT ![t] = NoLocals]
    /\ last' = Call("AddStaker", loc[t].net, loc[t].node, "", "tx1", loc[t].light, loc[t].old)
    /\ err' = NilErr
    /\ UNCHANGED <<validators, heap, listeners, added, snap, effects, regAt>>
    /\ UNCHANGED warpVars

\* RegisterCallbackListener(l): m.mu.Lock()
TRegisterLock(t, l) ==
    /\ pc[t] = "idle"
    /\ LockAvailable
    /\ Len(listeners) + Cardinality({u \in Threads : pc[u] = "Register.append"}) < MaxListeners
    /\ Len(added[l]) + Cardinality(Records(validators)) <= MaxLog
    /\ mu' = t
    /\ pc' = [pc EXCEPT ![t] = "Register.append"]
    /\ loc' = [loc EXCEPT ![t] = [NoLocals EXCEPT !.listener = l]]
    /\ UNCHANGED <<validators, heap, listeners, added, snap, last, err, effects, regAt>>
    /\ UNCHANGED warpVars

\* RegisterCallbackListener: the append, and the order the range loops take
TRegisterAppend(t) ==
    /\ pc[t] = "Register.append"
    /\ listeners' = Append(listeners, loc[t].listener)
    /\ regAt' = Append(regAt, Len(effects))
    /\ \E order \in ReplayOrders(validators) : loc' = [loc EXCEPT ![t].todo = order]
    /\ pc' = [pc EXCEPT ![t] = "Register.replay"]
    /\ UNCHANGED <<validators, heap, added, snap, last, err, mu, effects>>
    /\ UNCHANGED warpVars

\* RegisterCallbackListener: one iteration of the inner loop
TRegisterReplay(t) ==
    /\ pc[t] = "Register.replay"
    /\ loc[t].todo # << >>
    /\ added' = [added EXCEPT ![loc[t].listener] = @ \o Replay(<<Head(loc[t].todo)>>)]
    /\ loc' = [loc EXCEPT ![t].todo = Tail(@)]
    /\ UNCHANGED <<validators, heap, listeners, snap, last, err, mu, pc, effects, regAt>>
    /\ UNCHANGED warpVars

\* RegisterCallbackListener: the return and the deferred m.mu.Unlock()
TRegisterReturn(t) ==
    /\ pc[t] = "Register.replay"
    /\ loc[t].todo = << >>
    /\ mu' = ""
    /\ pc' = [pc EXCEPT ![t] = "idle"]
    /\ loc' = [loc EXCEPT ![t] = NoLocals]
    /\ last' = Call("RegisterCallbackListener", "", loc[t].listener, "", "", 0, -1)
    /\ UNCHANGED <<validators, heap, listeners, added, snap, err, effects, regAt>>
    /\ UNCHANGED warpVars

\* two threads staking on one network and registering listeners
NextThreads ==
    \E t \in Threads :
        \/ \E v \in NodeIDs, w \in {1, 2} : TAddStakerLock(t, "netA", v, w)
        \/ TAddStakerStore(t)
        \/ TAddStakerNotify(t)
        \/ TAddStakerReturn(t)
        \/ \E l \in ListenerIDs : TRegisterLock(t, l)
        \/ TRegisterAppend(t)
        \/ TRegisterReplay(t)
        \/ TRegisterReturn(t)

SpecThreads == Init /\ [][NextThreads]_vars

----------------------------------------------------------------------------
(* Sampling and subset weight *)

\* the largest size asked of Sample
MaxSample == 3
SampleSizes == 0..MaxSample

\* the orders in which a range loop can visit the keys of a map
RangeOrders(keys) ==
    {s \in [1..Cardinality(keys) -> keys] :
        \A i, j \in 1..Cardinality(keys) : s[i] = s[j] => i = j}

\* a loop that stops one element late
SampleFullLate(len, size) == len > size

\* if len(nodeIDs) >= size { break }
SampleFull(len, size) == len >= size

\* the range loop of Sample over the keys in the order visited
RECURSIVE SampleLoop(_, _, _)
SampleLoop(order, size, nodeIDs) ==
    IF order = << >> \/ SampleFull(Len(nodeIDs), size)
    THEN nodeIDs
    ELSE SampleLoop(Tail(order), size, Append(nodeIDs, Head(order)))

\* Sample: the results the call can return, one per visiting order
Sample(n, size) ==
    IF n \in DOMAIN validators
    THEN {[val |-> SampleLoop(o, size, << >>), err |-> NilErr] :
              o \in RangeOrders(DOMAIN validators[n])}
    ELSE {[val |-> << >>, err |-> NilErr]}

\* totalWeight += vdr.Weight for the members of nodeIDs that have a record
RECURSIVE SubsetWeightLoop(_, _)
SubsetWeightLoop(subnet, nodeIDs) ==
    IF nodeIDs = {} THEN 0
    ELSE LET v == CHOOSE x \in nodeIDs : TRUE
             w == IF v \in DOMAIN subnet THEN heap[subnet[v]].Weight ELSE 0
         IN  WrapAdd(w, SubsetWeightLoop(subnet, nodeIDs \ {v}))

SubsetWeight(n, nodeIDs) ==
    IF n \in DOMAIN validators
    THEN [val |-> SubsetWeightLoop(validators[n], nodeIDs), err |-> NilErr]
    ELSE [val |-> 0, err |-> NilErr]

----------------------------------------------------------------------------
(* The canonical validator set: FlattenValidatorSet *)

ErrWeightOverflow == "weight overflowed"
ErrUnknownValidator == "unknown validator"
\* the error of math.Add64
ErrOverflow == "overflow"
\* the error of bls.PublicKeyFromCompressedBytes
ErrFailedPublicKeyDecompress == "couldn't decompress public key"

\* math.Add64: the sum, or 0 and an error when it does not fit in a uint64
Add64(a, b) ==
    IF a > MaxUint64 - b
    THEN [val |-> 0, err |-> ErrOverflow]
    ELSE [val |-> a + b, err |-> NilErr]

\* Byte strings are sequences of small numbers.  A compressed public key is
\* a flag byte (2: even y, 3: odd y) followed by the x coordinate of a point
\* of the curve; the uncompressed form is the x coordinate followed by the y
\* coordinate.
CurveX == {1, 2}
CurveY(x, odd) == IF odd THEN 1 ELSE 2
NilKey == [x |-> 0, odd |-> FALSE]

\* bls.PublicKeyFromCompressedBytes
PublicKeyFromCompressedBytes(b) ==
    IF Len(b) = 2 /\ b[1] \in {2, 3} /\ b[2] \in CurveX
    THEN [pk |-> [x |-> b[2], odd |-> (b[1] = 3)], err |-> NilErr]
    ELSE [pk |-> NilKey, err |-> ErrFailedPublicKeyDecompress]

\* bls.PublicKeyToUncompressedBytes
PublicKeyToUncompressedBytes(pk) == <<pk.x, CurveY(pk.x, pk.odd)>>

\* bytes.Compare: unsigned lexicographic order, a proper prefix first
RECURSIVE BytesCompare(_, _)
BytesCompare(a, b) ==
    IF a = << >> /\ b = << >> THEN 0
    ELSE IF a = << >> THEN -1
    ELSE IF b = << >> THEN 1
    ELSE IF Head(a) < Head(b) THEN -1
    ELSE IF Head(a) > Head(b) THEN 1
    ELSE BytesCompare(Tail(a), Tail(b))

\* a comparison with the arguments swapped
CompareReversed(v, o) == BytesCompare(o.PublicKeyBytes, v.PublicKeyBytes)

\* (*CanonicalValidator).Compare
Compare(v, o) == BytesCompare(v.PublicKeyBytes, o.PublicKeyBytes)

\* the zero CanonicalValidatorSet
EmptyCanonicalSet == [Validators |-> << >>, TotalWeight |-> 0]

\* the running total that skips the records without a key
AddToTotalKeyedOnly(total, vdr) ==
    IF Len(vdr.PublicKey) = 0 \/ PublicKeyFromCompressedBytes(vdr.PublicKey).err # NilErr
    THEN [val |-> total, err |-> NilErr]
    ELSE Add64(total, vdr.Weight)

\* the running total in unchecked uint64 arithmetic
AddToTotalUnchecked(total, vdr) == [val |-> WrapAdd(total, vdr.Weight), err |-> NilErr]

\* a running total that stops at the largest uint64 instead of failing
AddToTotalSaturating(total, vdr) ==
    IF total > MaxUint64 - vdr.Weight
    THEN [val |-> MaxUint64, err |-> NilErr]
    ELSE [val |-> total + vdr.Weight, err |-> NilErr]

\* totalWeight, err = math.Add64(totalWeight, vdr.Weight)
AddToTotal(total, vdr) == Add64(total, vdr.Weight)

\* a decoding whose failure goes unnoticed
DecodeFailedNever(dec) == FALSE

\* blsPK, err := bls.PublicKeyFromCompressedBytes(vdr.PublicKey); err != nil
DecodeFailed(dec) == dec.err # NilErr

\* an entry that starts without weight
NewEntryWithoutWeight(pk, pkBytes, vdr) ==
    [PublicKey |-> pk, PublicKeyBytes |-> pkBytes, Weight |-> 0, NodeIDs |-> <<vdr.NodeID>>]

\* newVdr := &CanonicalValidator{...}
NewEntry(pk, pkBytes, vdr) ==
    [PublicKey |-> pk, PublicKeyBytes |-> pkBytes, Weight |-> vdr.Weight,
     NodeIDs |-> <<vdr.NodeID>>]

\* a merge that adds the weight and forgets the contributor
MergeEntryWithoutNodeID(existingVdr, weight, vdr) == [existingVdr EXCEPT !.Weight = weight]

\* a merge that keeps only the record visited last
MergeEntryOverwrite(existingVdr, weight, vdr) ==
    [existingVdr EXCEPT !.Weight = vdr.Weight, !.NodeIDs = <<vdr.NodeID>>]

\* existingVdr.Weight = (the checked sum); existingVdr.NodeIDs = append(...)
MergeEntry(existingVdr, weight, vdr) ==
    [existingVdr EXCEPT !.Weight = weight, !.NodeIDs = Append(@, vdr.NodeID)]

\* the locals of the loop: the map, the running total and the error that
\* ends the call (NilErr while the loop goes on)
LoopStart == [pkToValidator |-> EmptyMap, totalWeight |-> 0, err |-> NilErr]

\* one iteration of the range loop, on the record vdr
Visit(st, vdr) ==
    LET sum == AddToTotal(st.totalWeight, vdr)
        dec == PublicKeyFromCompressedBytes(vdr.PublicKey)
        pkBytes == PublicKeyToUncompressedBytes(dec.pk)
        merged == Add64(st.pkToValidator[pkBytes].Weight, vdr.Weight)
    IN  IF sum.err # NilErr
        THEN [st EXCEPT !.totalWeight = sum.val, !.err = ErrWeightOverflow]
        ELSE IF Len(vdr.PublicKey) = 0 \/ DecodeFailed(dec)
        THEN [st EXCEPT !.totalWeight = sum.val]
        ELSE IF pkBytes \in DOMAIN st.pkToValidator
        THEN IF merged.err # NilErr
             THEN [st EXCEPT !.totalWeight = sum.val, !.err = ErrWeightOverflow]
             ELSE [st EXCEPT !.totalWeight = sum.val,
                             !.pkToValidator = MapPut(@, pkBytes,
                                 MergeEntry(@[pkBytes], merged.val, vdr))]
        ELSE [st EXCEPT !.totalWeight = sum.val,
                        !.pkToValidator = MapPut(@, pkBytes, NewEntry(dec.pk, pkBytes, vdr))]

\* slices.Collect(maps.Values(m)): the values in any order
CollectValues(m) ==
    {[i \in 1..Len(o) |-> m[o[i]]] : o \in RangeOrders(DOMAIN m)}

\* a sort that leaves the list as it is
SortFuncNone(list) == {list}

\* slices.SortFunc(list, (*CanonicalValidator).Compare): the arrangements of
\* list in which no element comes before a smaller one
SortFunc(list) ==
    {[i \in 1..Len(list) |-> list[p[i]]] : p \in
        {q \in RangeOrders(1..Len(list)) :
            \A i, j \in 1..Len(list) : i < j => Compare(list[q[i]], list[q[j]]) <= 0}}

\* what the call can return once the loop has ended in state st
Returns(st) ==
    IF st.err # NilErr
    THEN {[set |-> EmptyCanonicalSet, err |-> ErrWeightOverflow]}
    ELSE {[set |-> [Validators |-> sorted, TotalWeight |-> st.totalWeight], err |-> NilErr] :
              sorted \in UNION {SortFunc(vdrList) :
                                    vdrList \in CollectValues(st.pkToValidator)}}

\* the node IDs, compressed key bytes and weights of the snapshots
SnapshotNodeIDs == {"v1", "v2", "v3"}
RawKeys == {<< >>, <<9>>, <<2, 1>>, <<3, 1>>, <<2, 2>>}
InputWeights == {0, 1, MaxUint64 - 1, MaxUint64}

\* the snapshots: maps from node ID to a record carrying that node ID
Snapshots ==
    UNION {{[k \in S |-> [NodeID |-> k, PublicKey |-> f[k][1], Weight |-> f[k][2]]] :
                f \in [S -> RawKeys \X InputWeights]} : S \in SUBSET SnapshotNodeIDs}

\* a call FlattenValidatorSet(vdrSet) on entry
InitFlatten ==
    /\ InitManager
    /\ vdrSet \in Snapshots
    /\ todo = DOMAIN vdrSet
    /\ pkToValidator = EmptyMap
    /\ totalWeight = 0
    /\ ret = NoRet
    /\ vdrs = << >>
    /\ indices = 0
    /\ filtered = NoRet
    /\ SumIdle
    /\ UptimeIdle
    /\ ReadIdle

\* the body of the range loop for the record under key k; an overflow
\* returns at once
FlattenVisit(k) ==
    /\ ret = NoRet
    /\ k \in todo
    /\ LET st == Visit([pkToValidator |-> pkToValidator, totalWeight |-> totalWeight,
                        err |-> NilErr], vdrSet[k])
       IN  IF st.err # NilErr
           THEN /\ ret' \in Returns(st)
                /\ todo' = {}
                /\ pkToValidator' = EmptyMap
                /\ totalWeight' = 0
           ELSE /\ todo' = todo \ {k}
                /\ pkToValidator' = st.pkToValidator
                /\ totalWeight' = st.totalWeight
                /\ ret' = ret
    /\ UNCHANGED <<vdrSet, filterVars, sumVars, uptimeVars, readVars>>
    /\ UNCHANGED <<validators, heap, listeners, added, snap, last, err, threadVars>>

\* the loop is over: collect, sort and return
FlattenReturn ==
    /\ ret = NoRet
    /\ todo = {}
    /\ ret' \in Returns([pkToValidator |-> pkToValidator, totalWeight |-> totalWeight,
                         err |-> NilErr])
    /\ pkToValidator' = EmptyMap
    /\ totalWeight' = 0
    /\ UNCHANGED <<vdrSet, todo, filterVars, sumVars, uptimeVars, readVars>>
    /\ UNCHANGED <<validators, heap, listeners, added, snap, last, err, threadVars>>

NextFlatten ==
    \/ \E k \in SnapshotNodeIDs : FlattenVisit(k)
    \/ FlattenReturn

SpecFlatten == InitFlatten /\ [][NextFlatten]_vars

\* the loop run on the records in the order given, from the state st
RECURSIVE RunLoop(_, _, _)
RunLoop(st, set, order) ==
    IF order = << >> \/ st.err # NilErr THEN st
    ELSE RunLoop(Visit(st, set[Head(order)]), set, Tail(order))

\* FlattenValidatorSet(set): what the call can return, over the orders in
\* which the range loop can visit the records
FlattenValidatorSet(set) ==
    UNION {Returns(RunLoop(LoopStart, set, o)) : o \in RangeOrders(DOMAIN set)}

----------------------------------------------------------------------------
(* Signer selection: FilterValidators *)

\* the longest list of canonical validators passed to FilterValidators
MaxVdrs == 3

\* A set.Bits selector is a big integer, modelled by its value: bit i is set
\* when the binary digit of weight 2^i is 1.
\* set.Bits.BitLen: the index of the highest set bit plus one, 0 for no bit
RECURSIVE BitLen(_)
BitLen(b) == IF b = 0 THEN 0 ELSE 1 + BitLen(b \div 2)

\* set.Bits.Contains
Contains(b, i) == (b \div (2 ^ i)) % 2 = 1

\* a bound check that also rejects a selector as long as the list
TooManyIndicesInclusive(b, n) == BitLen(b) >= n

\* a check that counts the set bits instead of taking the bit length
TooManyIndicesByCount(b, n) == Cardinality({i \in 0..BitLen(b) : Contains(b, i)}) > n

\* if indices.BitLen() > len(vdrs)
TooManyIndices(b, n) == BitLen(b) > n

\* a loop that puts each kept validator in front of the ones kept before
RECURSIVE FilterLoopPrepend(_, _, _, _)
FilterLoopPrepend(b, list, i, filteredVdrs) ==
    IF i >= Len(list) THEN filteredVdrs
    ELSE FilterLoopPrepend(b, list, i + 1,
                           IF Contains(b, i) THEN <<list[i + 1]>> \o filteredVdrs
                           ELSE filteredVdrs)

\* for i, vdr := range vdrs: keep vdr when indices.Contains(i); i counts from
\* 0 and is the position i + 1 of the sequence
RECURSIVE FilterLoop(_, _, _, _)
FilterLoop(b, list, i, filteredVdrs) ==
    IF i >= Len(list) THEN filteredVdrs
    ELSE FilterLoop(b, list, i + 1,
                    IF Contains(b, i) THEN Append(filteredVdrs, list[i + 1])
                    ELSE filteredVdrs)

FilterValidators(b, list) ==
    IF TooManyIndices(b, Len(list))
    THEN [vdrs |-> << >>, err |-> ErrUnknownValidator]
    ELSE [vdrs |-> FilterLoop(b, list, 0, << >>), err |-> NilErr]

\* the canonical validators the lists are made of
SomeEntries ==
    {[PublicKey |-> [x |-> b[1], odd |-> (b[2] = 1)], PublicKeyBytes |-> b,
      Weight |-> w, NodeIDs |-> <<"v1">>] :
        b \in {<<1, 1>>, <<1, 2>>, <<2, 2>>}, w \in {1, MaxUint64}}

\* the lists: any entries in any order
SomeLists == UNION {[1..n -> SomeEntries] : n \in 0..MaxVdrs}

\* the selectors: every combination of the bits 0..MaxVdrs
Selectors == 0..(2 ^ (MaxVdrs + 1) - 1)

\* a call FilterValidators(indices, vdrs) on entry
InitFilter ==
    /\ InitManager
    /\ vdrSet = EmptyMap
    /\ todo = {}
    /\ pkToValidator = EmptyMap
    /\ totalWeight = 0
    /\ ret = NoRet
    /\ vdrs \in SomeLists
    /\ indices \in Selectors
    /\ filtered = NoRet
    /\ SumIdle
    /\ UptimeIdle
    /\ ReadIdle

\* the call runs and returns
CallFilterValidators ==
    /\ filtered = NoRet
    /\ filtered' = FilterValidators(indices, vdrs)
    /\ UNCHANGED <<vdrs, indices, flattenVars, sumVars, uptimeVars, readVars>>
    /\ UNCHANGED <<validators, heap, listeners, added, snap, last, err, threadVars>>

NextFilter == CallFilterValidators

SpecFilter == InitFilter /\ [][NextFilter]_vars

----------------------------------------------------------------------------
(* Quorum weight: SumWeight *)

\* an overflow reported as the error of math.Add64 itself
OverflowErrorUnwrapped(e) == e

\* fmt.Errorf("%w: %w", ErrWeightOverflow, err): an error that errors.Is
\* recognises as ErrWeightOverflow
OverflowError(e) == ErrWeightOverflow

\* an addition in unchecked uint64 arithmetic
SumStepUnchecked(weight, vdr) == [val |-> WrapAdd(weight, vdr.Weight), err |-> NilErr]

\* weight, err = math.Add64(weight, vdr.Weight)
SumStep(weight, vdr) == Add64(weight, vdr.Weight)

\* for _, vdr := range vdrs, from the running weight given
RECURSIVE SumLoop(_, _)
SumLoop(list, weight) ==
    IF list = << >> THEN [val |-> weight, err |-> NilErr]
    ELSE LET s == SumStep(weight, Head(list))
         IN  IF s.err # NilErr
             THEN [val |-> 0, err |-> OverflowError(s.err)]
             ELSE SumLoop(Tail(list), s.val)

SumWeight(list) == SumLoop(list, 0)

\* a call SumWeight(sumOf) on entry
InitSum ==
    /\ InitManager
    /\ vdrSet = EmptyMap
    /\ todo = {}
    /\ pkToValidator = EmptyMap
    /\ totalWeight = 0
    /\ ret = NoRet
    /\ vdrs = << >>
    /\ indices = 0
    /\ filtered = NoRet
    /\ sumOf \in SomeLists
    /\ summed = NoRet
    /\ UptimeIdle
    /\ ReadIdle

\* the call runs and returns
CallSumWeight ==
    /\ summed = NoRet
    /\ summed' = SumWeight(sumOf)
    /\ UNCHANGED <<sumOf, flattenVars, filterVars, uptimeVars, readVars>>
    /\ UNCHANGED <<validators, heap, listeners, added, snap, last, err, threadVars>>

NextSum == CallSumWeight

SpecSum == InitSum /\ [][NextSum]_vars

\* any one of the three functions called on any of its inputs
InitWarp == InitFlatten \/ InitFilter \/ InitSum

NextWarp == NextFlatten \/ NextFilter \/ NextSum

SpecWarp == InitWarp /\ [][NextWarp]_vars

----------------------------------------------------------------------------
(* The pipeline: snapshot, FlattenValidatorSet, FilterValidators, SumWeight *)

\* the key bytes the public keys of the registry model stand for
KeyBytes(pk) ==
    IF pk = "keyX" THEN <<2, 1>> ELSE IF pk = "keyY" THEN <<3, 1>> ELSE << >>

\* what FlattenValidatorSet reads of a *GetValidatorOutput of the registry
AsInput(r) == [NodeID |-> r.NodeID, PublicKey |-> KeyBytes(r.PublicKey), Weight |-> r.Weight]

\* the weights staked in the pipeline
StakeWeights == InputWeights \ {0}

\* the snapshots passed to FlattenValidatorSet without the registry
DirectSnapshots ==
    UNION {{[k \in S |-> AsInput(NewRecord(k, f[k][1], "tx1", f[k][2]))] :
                f \in [S -> PubKeys \X StakeWeights]} : S \in (SUBSET SnapshotNodeIDs) \ {{}}}

\* nothing of the pipeline has run
PipeIdle ==
    /\ snap = EmptyMap
    /\ vdrSet = EmptyMap
    /\ todo = {}
    /\ ret = NoRet

\* m.AddStaker(netA, v, pk, tx1, w) for a node not yet staked
PipeStake(v, pk, w) ==
    /\ PipeIdle
    /\ GetValidator("netA", v).ok = FALSE
    /\ AddStaker("netA", v, pk, "tx1", w)

\* FlattenValidatorSet(m.GetMap(netA)) on entry
PipeFromRegistry ==
    /\ PipeIdle
    /\ Count("netA") > 0
    /\ snap' = GetMap("netA")
    /\ heap' = Collect(heap, validators, GetMap("netA"))
    /\ last' = Call("GetMap", "netA", "", "", "", 0, -1)
    /\ vdrSet' = [k \in DOMAIN GetMap("netA") |-> AsInput(heap[GetMap("netA")[k]])]
    /\ todo' = DOMAIN GetMap("netA")
    /\ UNCHANGED <<pkToValidator, totalWeight, ret, filterVars, sumVars, uptimeVars, readVars>>
    /\ UNCHANGED <<validators, listeners, added, err, threadVars>>

\* FlattenValidatorSet(s) on entry, for a snapshot built by the caller
PipeDirect(s) ==
    /\ PipeIdle
    /\ validators = EmptyMap
    /\ vdrSet' = s
    /\ todo' = DOMAIN s
    /\ UNCHANGED <<pkToValidator, totalWeight, ret, filterVars, sumVars, uptimeVars, readVars>>
    /\ UNCHANGED <<validators, heap, listeners, added, snap, last, err, threadVars>>

\* FilterValidators(b, canonical.Validators) after a successful flattening,
\* for the selectors that reach at most one bit past the list
PipeFilter(b) ==
    /\ ret # NoRet
    /\ ret.err = NilErr
    /\ filtered = NoRet
    /\ BitLen(b) <= Len(ret.set.Validators) + 1
    /\ vdrs' = ret.set.Validators
    /\ indices' = b
    /\ filtered' = FilterValidators(b, ret.set.Validators)
    /\ UNCHANGED <<flattenVars, sumVars, uptimeVars, readVars>>
    /\ UNCHANGED <<validators, heap, listeners, added, snap, last, err, threadVars>>

\* SumWeight(filteredVdrs) after a successful selection
PipeSum ==
    /\ filtered # NoRet
    /\ filtered.err = NilErr
    /\ summed = NoRet
    /\ sumOf' = filtered.vdrs
    /\ summed' = SumWeight(filtered.vdrs)
    /\ UNCHANGED <<flattenVars, filterVars, uptimeVars, readVars>>
    /\ UNCHANGED <<validators, heap, listeners, added, snap, last, err, threadVars>>

NextPipeline ==
    \/ \E v \in SnapshotNodeIDs, pk \in PubKeys, w \in StakeWeights : PipeStake(v, pk, w)
    \/ PipeFromRegistry
    \/ \E s \in DirectSnapshots : PipeDirect(s)
    \/ \E k \in SnapshotNodeIDs : vdrSet # EmptyMap /\ FlattenVisit(k)
    \/ vdrSet # EmptyMap /\ FlattenReturn
    \/ \E b \in Selectors : PipeFilter(b)
    \/ PipeSum

SpecPipeline == Init /\ [][NextPipeline]_vars

----------------------------------------------------------------------------
(* Threads changing weights while another reads the total.  AddWeight and  *)
(* RemoveWeight are a thread's steps from the call, through m.mu.Lock(),   *)
(* to the deferred m.mu.Unlock().  TotalLight holds the shared lock only   *)
(* inside GetValidators; its loop over the records runs after              *)
(* GetValidators has returned and released it.                             *)

\* the thread that changes weights, and the thread that reads
Writers == {"t1"}
Readers == {"t2"}

\* for _, v := range s.validators { total += v.Light } over the objects refs of h
RECURSIVE SumLightIn(_, _)
SumLightIn(h, refs) ==
    IF refs = {}
    THEN 0
    ELSE LET a == CHOOSE x \in refs : TRUE
         IN  WrapAdd(h[a].Light, SumLightIn(h, refs \ {a}))

\* what TotalLight(n) returns when nothing else runs, in the registry (vals, h)
TotalLightIn(vals, h, n) ==
    IF n \in DOMAIN vals
    THEN SumLightIn(h, {vals[n][v] : v \in DOMAIN vals[n]})
    ELSE 0

\* the totals every network has had, the registry (vals, h) included
Recorded(vals, h) == [n \in NetIDs |-> totals[n] \cup {TotalLightIn(vals, h, n)}]

\* a deferred Unlock that an early return skips
ReleasedUnlessEarly(holder, early) == IF early THEN holder ELSE ""

\* defer m.mu.Unlock(): the holder of the lock after a return, early or not
Released(holder, early) == ""

\* AddStaker(netA, v, nil, tx1, w), whole, while no thread is in a call
Stake(v, w) ==
    /\ \A t \in Threads : pc[t] = "idle"
    /\ v \notin GetValidatorIDs("netA")
    /\ LogRoom(1)
    /\ validators' = StakerMap("netA", v)
    /\ heap' = Collect(StakerHeap("netA", v, "", "tx1", w), StakerMap("netA", v), snap)
    /\ added' = NotifyAdded(added, "netA", v, w)
    /\ last' = Call("AddStaker", "netA", v, "", "tx1", w, Found("netA", v))
    /\ err' = NilErr
    /\ totals' = Recorded(StakerMap("netA", v),
                          Collect(StakerHeap("netA", v, "", "tx1", w), StakerMap("netA", v), snap))
    /\ UNCHANGED <<listeners, snap>>
    /\ UNCHANGED threadVars
    /\ UNCHANGED <<flattenVars, filterVars, sumVars, uptimeVars>>

\* a thread calls AddWeight(n, v, d) and waits in m.mu.Lock()
TAddWeightCall(t, n, v, d) ==
    /\ pc[t] = "idle"
    /\ pc' = [pc EXCEPT ![t] = "AddWeight.lock"]
    /\ loc' = [loc EXCEPT ![t] = [NoLocals EXCEPT !.net = n, !.node = v, !.light = d]]
    /\ UNCHANGED <<validators, heap, listeners, added, snap, last, err, mu, effects, regAt>>
    /\ UNCHANGED warpVars

\* AddWeight: m.mu.Lock() returns
TAddWeightLock(t) ==
    /\ pc[t] = "AddWeight.lock"
    /\ LockAvailable
    /\ mu' = t
    /\ pc' = [pc EXCEPT ![t] = "AddWeight.find"]
    /\ UNCHANGED <<validators, heap, listeners, added, snap, last, err, loc, effects, regAt>>
    /\ UNCHANGED warpVars

\* AddWeight: the network entry is made if absent, then val, exists := ...
TAddWeightFind(t) ==
    /\ pc[t] = "AddWeight.find"
    /\ validators' = EnsureNet(validators, loc[t].net)
    /\ loc' = [loc EXCEPT ![t].old = Found(loc[t].net, loc[t].node)]
    /\ pc' = [pc EXCEPT ![t] =
                 IF Found(loc[t].net, loc[t].node) = -1 THEN "AddWeight.unlock" ELSE "AddWeight.add"]
    /\ totals' = Recorded(EnsureNet(validators, loc[t].net), heap)
    /\ UNCHANGED <<heap, listeners, added, snap, last, err, mu, effects, regAt>>
    /\ UNCHANGED <<flattenVars, filterVars, sumVars, uptimeVars>>

\* AddWeight: val.Light += light; val.Weight += light
TAddWeightAdd(t) ==
    /\ pc[t] = "AddWeight.add"
    /\ heap' = [heap EXCEPT ![validators[loc[t].net][loc[t].node]] = AddWeightRecord(@, loc[t].light)]
    /\ pc' = [pc EXCEPT ![t] = "AddWeight.unlock"]
    /\ totals' = Recorded(validators,
                          [heap EXCEPT ![validators[loc[t].net][loc[t].node]] =
                              AddWeightRecord(@, loc[t].light)])
    /\ UNCHANGED <<validators, listeners, added, snap, last, err, mu, loc, effects, regAt>>
    /\ UNCHANGED <<flattenVars, filterVars, sumVars, uptimeVars>>

\* AddWeight: return nil, from either return statement, and the deferred Unlock
TAddWeightUnlock(t) ==
    /\ pc[t] = "AddWeight.unlock"
    /\ mu' = Released(mu, loc[t].old = -1)
    /\ pc' = [pc EXCEPT ![t] = "idle"]
    /\ loc' = [loc EXCEPT ![t] = NoLocals]
    /\ last' = Call("AddWeight", loc[t].net, loc[t].node, "", "", loc[t].light, loc[t].old)
    /\ err' = NilErr
    /\ UNCHANGED <<validators, heap, listeners, added, snap, effects, regAt>>
    /\ UNCHANGED warpVars

\* a thread calls RemoveWeight(n, v, d) and waits in m.mu.Lock()
TRemoveWeightCall(t, n, v, d) ==
    /\ pc[t] = "idle"
    /\ pc' = [pc EXCEPT ![t] = "RemoveWeight.lock"]
    /\ loc' = [loc EXCEPT ![t] = [NoLocals EXCEPT !.net = n, !.node = v, !.light = d]]
    /\ UNCHANGED <<validators, heap, listeners, added, snap, last, err, mu, effects, regAt>>
    /\ UNCHANGED warpVars

\* RemoveWeight: m.mu.Lock() returns
TRemoveWeightLock(t) ==
    /\ pc[t] = "RemoveWeight.lock"
    /\ LockAvailable
    /\ mu' = t
    /\ pc' = [pc EXCEPT ![t] = "RemoveWeight.find"]
    /\ UNCHANGED <<validators, heap, listeners, added, snap, last, err, loc, effects, regAt>>
    /\ UNCHANGED warpVars

\* RemoveWeight: if m.validators[netID] == nil { return nil }; val, exists := ...;
\* if !exists { return nil }
TRemoveWeightFind(t) ==
    /\ pc[t] = "RemoveWeight.find"
    /\ loc' = [loc EXCEPT ![t].old = Found(loc[t].net, loc[t].node)]
    /\ pc' = [pc EXCEPT ![t] =
                 IF Found(loc[t].net, loc[t].node) = -1 THEN "RemoveWeight.unlock" ELSE "RemoveWeight.sub"]
    /\ UNCHANGED <<validators, heap, listeners, added, snap, last, err, mu, effects, regAt>>
    /\ UNCHANGED warpVars

\* RemoveWeight: the subtraction and the deletions at weight zero
TRemoveWeightSub(t) ==
    /\ pc[t] = "RemoveWeight.sub"
    /\ LET a == validators[loc[t].net][loc[t].node]
           r == RemoveWeightRecord(heap[a], loc[t].light)
           vals1 == DeleteIfZero(validators, loc[t].net, loc[t].node, r)
           heap1 == Collect([heap EXCEPT ![a] = r], vals1, snap)
       IN  /\ validators' = vals1
           /\ heap' = heap1
           /\ totals' = Recorded(vals1, heap1)
    /\ pc' = [pc EXCEPT ![t] = "RemoveWeight.unlock"]
    /\ UNCHANGED <<listeners, added, snap, last, err, mu, loc, effects, regAt>>
    /\ UNCHANGED <<flattenVars, filterVars, sumVars, uptimeVars>>

\* RemoveWeight: return nil, from any of its return statements, and the
\* deferred Unlock
TRemoveWeightUnlock(t) ==
    /\ pc[t] = "RemoveWeight.unlock"
    /\ mu' = Released(mu, loc[t].old = -1)
    /\ pc' = [pc EXCEPT ![t] = "idle"]
    /\ loc' = [loc EXCEPT ![t] = NoLocals]
    /\ last' = Call("RemoveWeight", loc[t].net, loc[t].node, "", "", loc[t].light, loc[t].old)
    /\ err' = RemoveWeightError(loc[t].net, loc[t].node)
    /\ UNCHANGED <<validators, heap, listeners, added, snap, effects, regAt>>
    /\ UNCHANGED warpVars

\* a thread calls TotalLight(n), which calls GetValidators(n) and waits in
\* m.mu.RLock()
TTotalLightCall(t, n) ==
    /\ pc[t] = "idle"
    /\ pc' = [pc EXCEPT ![t] = "TotalLight.rlock"]
    /\ loc' = [loc EXCEPT ![t] = [NoLocals EXCEPT !.net = n]]
    /\ UNCHANGED <<validators, heap, listeners, added, snap, last, err, mu, effects, regAt>>
    /\ UNCHANGED warpVars

\* GetValidators: RLock, the Set around m.validators[netID], RUnlock; todo is
\* the order the range loop of Light() will take over that map
TGetValidators(t) ==
    /\ pc[t] = "TotalLight.rlock"
    /\ LockAvailable
    /\ \E order \in RangeOrders(GetValidatorIDs(loc[t].net)) :
           loc' = [loc EXCEPT ![t].todo = order, ![t].light = 0]
    /\ pc' = [pc EXCEPT ![t] = "TotalLight.sum"]
    /\ UNCHANGED <<validators, heap, listeners, added, snap, last, err, mu, effects, regAt>>
    /\ UNCHANGED warpVars

\* set.Light(): one iteration of total += v.Light, with no lock held
TLightVisit(t) ==
    /\ pc[t] = "TotalLight.sum"
    /\ loc[t].todo # << >>
    /\ loc' = [loc EXCEPT ![t].todo = Tail(@),
                          ![t].light = WrapAdd(@, heap[validators[loc[t].net][Head(loc[t].todo)]].Light)]
    /\ UNCHANGED <<validators, heap, listeners, added, snap, last, err, mu, pc, effects, regAt>>
    /\ UNCHANGED warpVars

\* TotalLight returns the total
TTotalLightReturn(t) ==
    /\ pc[t] = "TotalLight.sum"
    /\ loc[t].todo = << >>
    /\ pc' = [pc EXCEPT ![t] = "idle"]
    /\ loc' = [loc EXCEPT ![t] = NoLocals]
    /\ last' = Call("TotalLight", loc[t].net, "", "", "", loc[t].light, -1)
    /\ UNCHANGED <<validators, heap, listeners, added, snap, err, mu, effects, regAt>>
    /\ UNCHANGED warpVars

\* two validators staked on one network, one thread adding weight to them
\* and one thread reading the network's total
NextReaders ==
    \/ \E v \in NodeIDs, w \in {1, 2} : Stake(v, w)
    \/ \E t \in Writers, v \in NodeIDs, d \in {1, 2} : TAddWeightCall(t, "netA", v, d)
    \/ \E t \in Writers : TAddWeightLock(t)
    \/ \E t \in Writers : TAddWeightFind(t)
    \/ \E t \in Writers : TAddWeightAdd(t)
    \/ \E t \in Writers : TAddWeightUnlock(t)
    \/ \E t \in Readers : TTotalLightCall(t, "netA")
    \/ \E t \in Readers : TGetValidators(t)
    \/ \E t \in Readers : TLightVisit(t)
    \/ \E t \in Readers : TTotalLightReturn(t)

SpecReaders == Init /\ [][NextReaders]_vars

\* the steps of a call after the thread has the lock
Proceed(t) ==
    \/ TAddWeightFind(t)
    \/ TAddWeightAdd(t)
    \/ TAddWeightUnlock(t)
    \/ TRemoveWeightFind(t)
    \/ TRemoveWeightSub(t)
    \/ TRemoveWeightUnlock(t)

\* m.mu.Lock() returning to a waiting thread
Acquire(t) == TAddWeightLock(t) \/ TRemoveWeightLock(t)

\* two threads adding and removing weight on one network, on validators
\* that may or may not be staked
NextLive ==
    \/ \E v \in NodeIDs : Stake(v, 1)
    \/ \E t \in Threads, v \in NodeIDs : TAddWeightCall(t, "netA", v, 1)
    \/ \E t \in Threads, v \in NodeIDs : TRemoveWeightCall(t, "netA", v, 1)
    \/ \E t \in Threads : TAddWeightLock(t)
    \/ \E t \in Threads : TAddWeightFind(t)
    \/ \E t \in Threads : TAddWeightAdd(t)
    \/ \E t \in Threads : TAddWeightUnlock(t)
    \/ \E t \in Threads : TRemoveWeightLock(t)
    \/ \E t \in Threads : TRemoveWeightFind(t)
    \/ \E t \in Threads : TRemoveWeightSub(t)
    \/ \E t \in Threads : TRemoveWeightUnlock(t)

\* fair scheduling: a thread that can take a step of its call takes it, and
\* a thread waiting in Lock() gets the lock if it is free again and again
\* (sync.Mutex hands the lock to a waiter that has been starved)
Fairness ==
    \A t \in Threads : WF_vars(Proceed(t)) /\ SF_vars(Acquire(t))

SpecLive == Init /\ [][NextLive]_vars /\ Fairness

----------------------------------------------------------------------------
(* The locked uptime calculator: a map from network to strategy behind a   *)
(* reader/writer lock, and a fallback strategy.  A strategy is named by    *)
(* its type; a result is the tuple of the values returned before the nil   *)
(* error, a percentage written as the number it is (1.0 as 1).             *)

\* the Calculator implementations, and the nil interface value
Strategies == {"NoOpCalculator", "ZeroUptimeCalculator"}
NilCalculator == "nil"

\* most SetCalculator calls followed
MaxRegistrations == 3

\* the three operations that are dispatched
CalculateOps == {"CalculateUptime", "CalculateUptimePercent", "CalculateUptimePercentFrom"}

\* NoOpCalculator: 0, 0, nil; ZeroUptimeCalculator: 0, 1, nil
CalculateUptimeOf(c) == IF c = "NoOpCalculator" THEN <<0, 0>> ELSE <<0, 1>>

\* NoOpCalculator: 1.0, nil; ZeroUptimeCalculator: 0.0, nil
CalculateUptimePercentOf(c) == IF c = "NoOpCalculator" THEN <<1>> ELSE <<0>>

\* NoOpCalculator: 1.0, nil; ZeroUptimeCalculator: 0.0, nil
CalculateUptimePercentFromOf(c) == IF c = "NoOpCalculator" THEN <<1>> ELSE <<0>>

\* what strategy c returns for operation op
ResultOf(c, op) ==
    CASE op = "CalculateUptime" -> CalculateUptimeOf(c)
      [] op = "CalculateUptimePercent" -> CalculateUptimePercentOf(c)
      [] op = "CalculateUptimePercentFrom" -> CalculateUptimePercentFromOf(c)

\* if fallback == nil { fallback = NoOpCalculator{} }
NewLockedCalculatorWithFallback(f) == IF f = NilCalculator THEN "NoOpCalculator" ELSE f

\* a lookup that ignores the fallback
LookupZeroWhenAbsent(n) ==
    IF n \in DOMAIN calculators THEN calculators[n] ELSE "ZeroUptimeCalculator"

\* if calc, ok := l.calculators[subnetID]; ok { calc } else { l.fallback }
Lookup(n) == IF n \in DOMAIN calculators THEN calculators[n] ELSE fallback

\* a SetCalculator for which nil removes the registration
StoreCalculatorOrRemove(m, n, c) == IF c # NilCalculator THEN MapPut(m, n, c) ELSE MapDelete(m, n)

\* if calc != nil { l.calculators[subnetID] = calc }
StoreCalculator(m, n, c) == IF c # NilCalculator THEN MapPut(m, n, c) ELSE m

\* NewLockedCalculator(), or NewLockedCalculatorWithFallback(f) with any f;
\* last names the constructor and its argument
InitUptime ==
    /\ validators = EmptyMap
    /\ heap = EmptyMap
    /\ listeners = << >>
    /\ added = [l \in ListenerIDs |-> << >>]
    /\ snap = EmptyMap
    /\ err = NilErr
    /\ mu = ""
    /\ pc = [t \in Threads |-> "idle"]
    /\ loc = [t \in Threads |-> NoLocals]
    /\ effects = << >>
    /\ regAt = << >>
    /\ SumIdle
    /\ ReadIdle
    /\ CanonicalIdle
    /\ calculators = EmptyMap
    /\ lmu = [writer |-> "", readers |-> {}]
    /\ started = << >>
    /\ \/ /\ fallback = "NoOpCalculator"
          /\ last = Call("NewLockedCalculator", "", "", "", "", << >>, -1)
       \/ \E f \in Strategies \cup {NilCalculator} :
              /\ fallback = NewLockedCalculatorWithFallback(f)
              /\ last = Call("NewLockedCalculatorWithFallback", "", f, "", "", << >>, -1)

\* SetCalculator(n, c), whole
SetCalculator(n, c) ==
    /\ Len(started) < MaxRegistrations
    /\ calculators' = StoreCalculator(calculators, n, c)
    /\ started' = Append(started, <<n, c>>)
    /\ last' = Call("SetCalculator", n, c, "", "", << >>, -1)
    /\ err' = NilErr
    /\ UNCHANGED <<fallback, lmu>>
    /\ UNCHANGED <<validators, heap, listeners, added, snap, threadVars>>
    /\ UNCHANGED <<flattenVars, filterVars, sumVars, readVars>>

\* CalculateUptime, CalculateUptimePercent or CalculateUptimePercentFrom for
\* network n, whole
Calculate(op, n) ==
    /\ last' = Call(op, n, "", "", "", ResultOf(Lookup(n), op), -1)
    /\ err' = NilErr
    /\ UNCHANGED <<validators, heap, listeners, added, snap, threadVars>>
    /\ UNCHANGED warpVars

\* one caller registering strategies, nil included, and calculating
NextUptime ==
    \/ \E n \in NetIDs, c \in Strategies \cup {NilCalculator} : SetCalculator(n, c)
    \/ \E n \in NetIDs : Calculate("CalculateUptime", n)
    \/ \E n \in NetIDs : Calculate("CalculateUptimePercent", n)
    \/ \E n \in NetIDs : Calculate("CalculateUptimePercentFrom", n)

SpecUptime == InitUptime /\ [][NextUptime]_vars

\* the goroutines of the concurrent use: one writer, several readers
UptimeWriters == {"t1"}
UptimeReaders == {"t2", "t3"}

\* the times a reader runs its three calls
MaxRounds == 1

\* the calls of one round of a reader, in order
ReaderOps == <<"CalculateUptimePercent", "CalculateUptime", "CalculateUptimePercentFrom">>

\* the call a reader makes after i calls
ReaderOp(i) == ReaderOps[(i % Len(ReaderOps)) + 1]

\* the calculator the writer passes in its i-th SetCalculator, from i = 0
WriterCalc(i) == IF i % 2 = 0 THEN "NoOpCalculator" ELSE "ZeroUptimeCalculator"

\* a goroutine that has made no call
NoCalls == [i |-> 0, result |-> << >>]

\* NewLockedCalculator() and the goroutines started
InitUptimeThreads ==
    /\ validators = EmptyMap
    /\ heap = EmptyMap
    /\ listeners = << >>
    /\ added = [l \in ListenerIDs |-> << >>]
    /\ snap = EmptyMap
    /\ last = Call("NewLockedCalculator", "", "", "", "", << >>, -1)
    /\ err = NilErr
    /\ mu = ""
    /\ pc = [t \in UptimeWriters \cup UptimeReaders |-> "idle"]
    /\ loc = [t \in UptimeWriters \cup UptimeReaders |-> NoCalls]
    /\ effects = << >>
    /\ regAt = << >>
    /\ SumIdle
    /\ ReadIdle
    /\ CanonicalIdle
    /\ UptimeIdle

\* the writer calls SetCalculator(netA, ...) and waits in l.mu.Lock()
WSetCalculatorCall(t) ==
    /\ pc[t] = "idle"
    /\ Len(started) < MaxRegistrations
    /\ started' = Append(started, <<"netA", WriterCalc(Len(started))>>)
    /\ pc' = [pc EXCEPT ![t] = "SetCalculator.lock"]
    /\ UNCHANGED <<calculators, fallback, lmu>>
    /\ UNCHANGED <<validators, heap, listeners, added, snap, last, err, mu, loc, effects, regAt>>
    /\ UNCHANGED <<flattenVars, filterVars, sumVars, readVars>>

\* SetCalculator: l.mu.Lock() returns, no reader and no writer holding it
WSetCalculatorLock(t) ==
    /\ pc[t] = "SetCalculator.lock"
    /\ lmu.writer = ""
    /\ lmu.readers = {}
    /\ lmu' = [lmu EXCEPT !.writer = t]
    /\ pc' = [pc EXCEPT ![t] = "SetCalculator.store"]
    /\ UNCHANGED <<calculators, fallback, started>>
    /\ UNCHANGED <<validators, heap, listeners, added, snap, last, err, mu, loc, effects, regAt>>
    /\ UNCHANGED <<flattenVars, filterVars, sumVars, readVars>>

\* SetCalculator: the map write
WSetCalculatorStore(t) ==
    /\ pc[t] = "SetCalculator.store"
    /\ calculators' = StoreCalculator(calculators, "netA", started[Len(started)][2])
    /\ pc' = [pc EXCEPT ![t] = "SetCalculator.unlock"]
    /\ UNCHANGED <<fallback, lmu, started>>
    /\ UNCHANGED <<validators, heap, listeners, added, snap, last, err, mu, loc, effects, regAt>>
    /\ UNCHANGED <<flattenVars, filterVars, sumVars, readVars>>

\* SetCalculator: return nil and the deferred l.mu.Unlock()
WSetCalculatorUnlock(t) ==
    /\ pc[t] = "SetCalculator.unlock"
    /\ lmu' = [lmu EXCEPT !.writer = ""]
    /\ pc' = [pc EXCEPT ![t] = "idle"]
    /\ last' = Call("SetCalculator", "netA", started[Len(started)][2], "", "", << >>, -1)
    /\ UNCHANGED <<calculators, fallback, started>>
    /\ UNCHANGED <<validators, heap, listeners, added, snap, err, mu, loc, effects, regAt>>
    /\ UNCHANGED <<flattenVars, filterVars, sumVars, readVars>>

\* the writer's loop is over: done <- true
WDone(t) ==
    /\ pc[t] = "idle"
    /\ Len(started) = MaxRegistrations
    /\ pc' = [pc EXCEPT ![t] = "done"]
    /\ UNCHANGED <<validators, heap, listeners, added, snap, last, err, mu, loc, effects, regAt>>
    /\ UNCHANGED warpVars

\* a reader makes its next call and waits in l.mu.RLock()
RCalculateCall(t) ==
    /\ pc[t] = "idle"
    /\ loc[t].i < MaxRounds * Len(ReaderOps)
    /\ pc' = [pc EXCEPT ![t] = "Calculate.rlock"]
    /\ UNCHANGED <<validators, heap, listeners, added, snap, last, err, mu, loc, effects, regAt>>
    /\ UNCHANGED warpVars

\* Calculate*: l.mu.RLock() returns, no writer holding the lock
RCalculateRLock(t) ==
    /\ pc[t] = "Calculate.rlock"
    /\ lmu.writer = ""
    /\ lmu' = [lmu EXCEPT !.readers = @ \cup {t}]
    /\ pc' = [pc EXCEPT ![t] = "Calculate.lookup"]
    /\ UNCHANGED <<calculators, fallback, started>>
    /\ UNCHANGED <<validators, heap, listeners, added, snap, last, err, mu, loc, effects, regAt>>
    /\ UNCHANGED <<flattenVars, filterVars, sumVars, readVars>>

\* Calculate*: the lookup and the call of the calculator found
RCalculateLookup(t) ==
    /\ pc[t] = "Calculate.lookup"
    /\ loc' = [loc EXCEPT ![t].result = ResultOf(Lookup("netA"), ReaderOp(loc[t].i))]
    /\ pc' = [pc EXCEPT ![t] = "Calculate.runlock"]
    /\ UNCHANGED <<validators, heap, listeners, added, snap, last, err, mu, effects, regAt>>
    /\ UNCHANGED warpVars

\* Calculate*: the return and the deferred l.mu.RUnlock()
RCalculateRUnlock(t) ==
    /\ pc[t] = "Calculate.runlock"
    /\ lmu' = [lmu EXCEPT !.readers = @ \ {t}]
    /\ pc' = [pc EXCEPT ![t] = "idle"]
    /\ loc' = [loc EXCEPT ![t] = [i |-> loc[t].i + 1, result |-> << >>]]
    /\ last' = Call(ReaderOp(loc[t].i), "netA", t, "", "", loc[t].result, -1)
    /\ UNCHANGED <<calculators, fallback, started>>
    /\ UNCHANGED <<validators, heap, listeners, added, snap, err, mu, effects, regAt>>
    /\ UNCHANGED <<flattenVars, filterVars, sumVars, readVars>>

\* a reader's loop is over: done <- true
RDone(t) ==
    /\ pc[t] = "idle"
    /\ loc[t].i = MaxRounds * Len(ReaderOps)
    /\ pc' = [pc EXCEPT ![t] = "done"]
    /\ UNCHANGED <<validators, heap, listeners, added, snap, last, err, mu, loc, effects, regAt>>
    /\ UNCHANGED warpVars

\* one goroutine's steps
WriterStep(t) ==
    \/ WSetCalculatorCall(t)
    \/ WSetCalculatorLock(t)
    \/ WSetCalculatorStore(t)
    \/ WSetCalculatorUnlock(t)
    \/ WDone(t)

ReaderStep(t) ==
    \/ RCalculateCall(t)
    \/ RCalculateRLock(t)
    \/ RCalculateLookup(t)
    \/ RCalculateRUnlock(t)
    \/ RDone(t)

\* one writer alternating the strategy of a network, readers calculating
NextUptimeThreads ==
    \/ \E t \in UptimeWriters : WriterStep(t)
    \/ \E t \in UptimeReaders : ReaderStep(t)

\* every goroutine that can take a step eventually takes one
SpecUptimeThreads ==
    /\ InitUptimeThreads
    /\ [][NextUptimeThreads]_vars
    /\ \A t \in UptimeWriters : WF_vars(WriterStep(t))
    /\ \A t \in UptimeReaders : WF_vars(ReaderStep(t))

----------------------------------------------------------------------------
(* A listener that calls back into the registry.  Its OnValidatorAdded     *)
(* calls m.AddWeight for the validator it is told of, on the thread that   *)
(* runs the notification loop and holds m.mu; inside the callback that     *)
(* thread is a caller of AddWeight waiting in m.mu.Lock() like any other.  *)

\* the thread that stakes and registers listeners, and the other thread
Notifiers == {"t1"}
Others == {"t2"}

\* the listeners whose OnValidatorAdded calls m.AddWeight
ReentrantListeners == {"L2"}

\* AddStaker: the loop calls a listener that does not call back
TAddStakerNotifyPlain(t) ==
    /\ pc[t] = "AddStaker.notify"
    /\ loc[t].i <= Len(listeners)
    /\ listeners[loc[t].i] \notin ReentrantListeners
    /\ TAddStakerNotify(t)

\* AddStaker: the loop calls a listener that calls m.AddWeight(netID, nodeID, 1)
TAddStakerNotifyReenter(t) ==
    /\ pc[t] = "AddStaker.notify"
    /\ loc[t].i <= Len(listeners)
    /\ listeners[loc[t].i] \in ReentrantListeners
    /\ added' = [added EXCEPT ![listeners[loc[t].i]] =
                    Append(@, <<loc[t].net, loc[t].node, loc[t].light, "AddStaker">>)]
    /\ pc' = [pc EXCEPT ![t] = "AddWeight.lock"]
    /\ loc' = [loc EXCEPT ![t].light = 1]
    /\ UNCHANGED <<validators, heap, listeners, snap, last, err, mu, effects, regAt>>
    /\ UNCHANGED warpVars

\* RegisterCallbackListener: the replay calls a listener that does not call back
TRegisterReplayPlain(t) ==
    /\ pc[t] = "Register.replay"
    /\ loc[t].listener \notin ReentrantListeners
    /\ TRegisterReplay(t)

\* RegisterCallbackListener: the replay calls a listener that calls
\* m.AddWeight(netID, nodeID, 1)
TRegisterReplayReenter(t) ==
    /\ pc[t] = "Register.replay"
    /\ loc[t].todo # << >>
    /\ loc[t].listener \in ReentrantListeners
    /\ added' = [added EXCEPT ![loc[t].listener] = @ \o Replay(<<Head(loc[t].todo)>>)]
    /\ pc' = [pc EXCEPT ![t] = "AddWeight.lock"]
    /\ loc' = [loc EXCEPT ![t].net = Head(loc[t].todo)[1],
                          ![t].node = Head(loc[t].todo)[2],
                          ![t].light = 1]
    /\ UNCHANGED <<validators, heap, listeners, snap, last, err, mu, effects, regAt>>
    /\ UNCHANGED warpVars

\* one thread staking and registering listeners, one of which calls back
\* into the registry, and another thread adding weight, on one network
NextReenter ==
    \/ \E t \in Notifiers, v \in NodeIDs : TAddStakerLock(t, "netA", v, 1)
    \/ \E t \in Notifiers : TAddStakerStore(t)
    \/ \E t \in Notifiers : TAddStakerNotifyPlain(t)
    \/ \E t \in Notifiers : TAddStakerNotifyReenter(t)
    \/ \E t \in Notifiers : TAddStakerReturn(t)
    \/ \E t \in Notifiers, l \in ListenerIDs : TRegisterLock(t, l)
    \/ \E t \in Notifiers : TRegisterAppend(t)
    \/ \E t \in Notifiers : TRegisterReplayPlain(t)
    \/ \E t \in Notifiers : TRegisterReplayReenter(t)
    \/ \E t \in Notifiers : TRegisterReturn(t)
    \/ \E t \in Others, v \in NodeIDs : TAddWeightCall(t, "netA", v, 1)
    \/ \E t \in Threads : TAddWeightLock(t)
    \/ \E t \in Threads : TAddWeightFind(t)
    \/ \E t \in Threads : TAddWeightAdd(t)
    \/ \E t \in Threads : TAddWeightUnlock(t)

SpecReenter == Init /\ [][NextReenter]_vars

----------------------------------------------------------------------------
(* What a caller can observe of the registry through its read accessors *)

\* the records reached through GetMap(n), by node
MapView(n) == [k \in DOMAIN GetMap(n) |-> heap[GetMap(n)[k]]]

Observables ==
    [NumNets |-> NumNets,
     Count |-> [n \in NetIDs |-> Count(n)],
     GetMap |-> [n \in NetIDs |-> MapView(n)],
     GetValidatorIDs |-> [n \in NetIDs |-> GetValidatorIDs(n)],
     TotalLight |-> [n \in NetIDs |-> TotalLight(n)]]

----------------------------------------------------------------------------
(* C1 *)

\* C1: RemoveWeight(n, v, d) on an existing record of weight w leaves weight
\* w - d when d < w and deletes the record when d >= w; when the deleted
\* record was the last of its network the network entry goes too and NumNets
\* counts one network less.
RemoveWeightClampsAndDeletes ==
    [][\A n \in NetIDs, v \in NodeIDs :
         (/\ last'.op = "RemoveWeight"
          /\ last'.net = n
          /\ last'.node = v
          /\ GetValidator(n, v).ok) =>
             LET d == last'.arg
                 w == GetLight(n, v)
             IN  /\ d < w => /\ GetValidator(n, v)'.ok
                             /\ GetLight(n, v)' = w - d
                             /\ NumNets' = NumNets
                 /\ d >= w => /\ ~GetValidator(n, v)'.ok
                              /\ Count(n)' = Count(n) - 1
                              /\ Count(n) = 1 => /\ n \notin DOMAIN validators'
                                                 /\ NumNets' = NumNets - 1
                              /\ Count(n) > 1 => /\ n \in DOMAIN validators'
                                                 /\ NumNets' = NumNets]_vars

\* RemoveWeight took more than the record held, deleted the record and, it
\* being the last one, its network, while another network remains
RemoveWeightClampsAndDeletesWitness ==
    /\ last.op = "RemoveWeight"
    /\ last.old > 0
    /\ last.arg > last.old
    /\ ~GetValidator(last.net, last.node).ok
    /\ last.net \notin DOMAIN validators
    /\ NumNets = 1

----------------------------------------------------------------------------
(* C2 *)

\* C2: after any sequence of AddStaker, AddWeight and RemoveWeight calls the
\* registry holds no record whose weight is zero.
NoZeroWeightRecord ==
    \A n \in NetIDs, v \in NodeIDs : GetValidator(n, v).ok => GetLight(n, v) # 0

----------------------------------------------------------------------------
(* C3 *)

\* C3: AddWeight on a (network, node) without a record returns no error and
\* leaves every observable of the registry as it was.
AddWeightMissingIsNoOp ==
    [][(last'.op = "AddWeight" /\ ~GetValidator(last'.net, last'.node).ok) =>
         /\ err' = NilErr
         /\ Observables' = Observables]_vars

----------------------------------------------------------------------------
(* C4 *)

\* C4: AddWeight(n, v, d) on an existing record of weight w leaves both the
\* Light and the Weight field at w + d, never below w.
AddWeightIncreasesByDelta ==
    [][(last'.op = "AddWeight" /\ GetValidator(last'.net, last'.node).ok) =>
         LET a == GetValidator(last'.net, last'.node).val
             w == heap[a].Light
         IN  /\ heap'[a].Light = w + last'.arg
             /\ heap'[a].Weight = w + last'.arg
             /\ heap'[a].Light >= w]_vars

----------------------------------------------------------------------------
(* C5 *)

\* C5: AddStaker returns no error and right after it GetValidator of its
\* (network, node) finds a record with exactly the node, key, transaction
\* and weight of the call, whatever was stored before.
AddStakerStoresRecord ==
    last.op = "AddStaker" =>
        /\ err = NilErr
        /\ GetValidator(last.net, last.node).ok
        /\ heap[GetValidator(last.net, last.node).val] =
               [NodeID |-> last.node, PublicKey |-> last.key, Light |-> last.arg,
                Weight |-> last.arg, TxID |-> last.tx]

\* AddStaker overwrote a record with another weight, and another node of the
\* network holds the same (non-empty) public key
AddStakerStoresRecordWitness ==
    /\ last.op = "AddStaker"
    /\ last.old >= 0
    /\ last.old # last.arg
    /\ last.key # ""
    /\ \E v \in NodeIDs \ {last.node} :
          /\ GetValidator(last.net, v).ok
          /\ heap[GetValidator(last.net, v).val].PublicKey = last.key

----------------------------------------------------------------------------
(* C6 *)

\* every registry read, for every argument
Reads ==
    [observables |-> Observables,
     GetValidator |-> [n \in NetIDs, v \in NodeIDs |->
                          IF GetValidator(n, v).ok
                          THEN <<TRUE, heap[GetValidator(n, v).val]>>
                          ELSE <<FALSE>>],
     GetLight |-> [n \in NetIDs, v \in NodeIDs |-> GetLight(n, v)]]

\* C6: whatever the caller does to the map GetMap returned (delete or insert
\* an entry, change a field of a record reached through it), every later
\* registry read returns what it returned before.
GetMapIsDefensiveCopy ==
    [][last'.op \in {"delete(vmap, k)", "vmap[k] = p", "vmap[k].Light = w"} =>
         Reads' = Reads]_vars

----------------------------------------------------------------------------
(* C7 *)

\* C7: during RegisterCallbackListener the listener receives exactly one
\* OnValidatorAdded for each record of the registry, with the record's
\* network, node and current weight, and none for a pair without a record.
RegistrationReplaysEveryRecord ==
    [][\A l \in ListenerIDs :
         (last'.op = "RegisterCallbackListener" /\ last'.node = l) =>
             LET before == Len(added[l])
                 during == SubSeq(added'[l], before + 1, Len(added'[l]))
             IN  /\ SubSeq(added'[l], 1, before) = added[l]
                 /\ Len(during) = Cardinality(Records(validators))
                 /\ Range(during) =
                        {<<p[1], p[2], GetLight(p[1], p[2]), "RegisterCallbackListener">> :
                            p \in Records(validators)}]_vars

\* a listener was registered while both networks held a record, one of them
\* with a weight changed since it was staked, and a pair without a record
RegistrationReplaysEveryRecordWitness ==
    /\ last.op = "RegisterCallbackListener"
    /\ \A n \in NetIDs : Count(n) > 0
    /\ \E n \in NetIDs, v \in NodeIDs : ~GetValidator(n, v).ok
    /\ \E i \in 1..Len(added[last.node]) : added[last.node][i][3] = 1
    /\ Len(added[last.node]) = Cardinality(Records(validators))

----------------------------------------------------------------------------
(* C8 *)

\* no thread is inside a registry operation
Quiescent == \A t \in Threads : pc[t] = "idle"

\* the notifications listener l received from AddStaker calls, in order
RECURSIVE AddsOf(_)
AddsOf(log) ==
    IF log = << >> THEN << >>
    ELSE IF Head(log)[4] = "AddStaker"
         THEN <<<<Head(log)[1], Head(log)[2], Head(log)[3]>>>> \o AddsOf(Tail(log))
         ELSE AddsOf(Tail(log))

\* the length of effects when l was first registered
FirstReg(l) == regAt[CHOOSE j \in 1..Len(listeners) :
                        listeners[j] = l /\ \A i \in 1..(j - 1) : listeners[i] # l]

\* the AddStaker calls from the i-th on, in the order they took effect
RECURSIVE EffectsFrom(_)
EffectsFrom(i) ==
    IF i > Len(effects) THEN << >>
    ELSE <<<<effects[i][1], effects[i][2], effects[i][3]>>>> \o EffectsFrom(i + 1)

\* the same, each as often as l was in m.listeners when it took effect
RECURSIVE EffectsPerEntryFrom(_, _)
EffectsPerEntryFrom(l, i) ==
    IF i > Len(effects) THEN << >>
    ELSE LET k == Cardinality({j \in 1..Len(listeners) : listeners[j] = l /\ regAt[j] < i})
             e == <<effects[i][1], effects[i][2], effects[i][3]>>
         IN  [x \in 1..k |-> e] \o EffectsPerEntryFrom(l, i + 1)

\* the registration that returned last replayed the records it found, which
\* hold every earlier AddStaker
ReplayedOnReturn ==
    (Quiescent /\ last.op = "RegisterCallbackListener") =>
        LET log == added[last.node]
            N == Cardinality(Records(validators))
        IN  /\ Len(log) >= N
            /\ {log[i] : i \in (Len(log) - N + 1)..Len(log)} =
                   {<<p[1], p[2], GetLight(p[1], p[2]), "RegisterCallbackListener">> :
                       p \in Records(validators)}
            /\ \A i \in 1..Len(effects) : GetValidator(effects[i][1], effects[i][2]).ok

\* C8 as stated: once a listener is registered, each later AddStaker call of
\* any thread notifies it exactly once, in the order in which the calls
\* took effect; none is missed or delivered twice.
NotifiedOncePerAddStaker ==
    Quiescent =>
        /\ \A l \in Range(listeners) : AddsOf(added[l]) = EffectsFrom(FirstReg(l) + 1)
        /\ ReplayedOnReturn

\* C8 as amended: each later AddStaker call notifies the listener once for
\* each entry it has in m.listeners (exactly once when it was registered
\* once), in the order in which the calls took effect; none is missed.
NotifiedOncePerRegistration ==
    Quiescent =>
        /\ \A l \in Range(listeners) :
              AddsOf(added[l]) = EffectsPerEntryFrom(l, FirstReg(l) + 1)
        /\ ReplayedOnReturn

\* two threads staked different records after a listener was registered, and
\* the listener holds both notifications
NotifiedOncePerRegistrationWitness ==
    /\ Quiescent
    /\ Len(effects) = 2
    /\ effects[1][4] # effects[2][4]
    /\ effects[1][2] # effects[2][2]
    /\ \E l \in Range(listeners) : FirstReg(l) = 0 /\ Len(AddsOf(added[l])) = 2

----------------------------------------------------------------------------
(* C9 *)

\* C9: no mutation returns an error, and a read of an absent network or node
\* answers with not-found, zero or empty values and a nil error.
AbsenceIsNeverAnError ==
    /\ err = NilErr
    /\ \A n \in NetIDs, v \in NodeIDs :
          Found(n, v) = -1 =>
              /\ GetValidator(n, v) = [val |-> NilPtr, ok |-> FALSE]
              /\ GetLight(n, v) = 0
    /\ \A n \in NetIDs :
          (\A v \in NodeIDs : Found(n, v) = -1) =>
              /\ TotalLight(n) = [val |-> 0, err |-> NilErr]
              /\ Count(n) = 0
              /\ GetValidators(n).Len = 0
              /\ GetValidators(n).err = NilErr
              /\ GetMap(n) = EmptyMap

\* RemoveWeight and AddWeight were called on a node without a record, once in
\* a network that has other records and once in a network that has none
AbsenceIsNeverAnErrorWitness ==
    /\ last.op \in {"RemoveWeight", "AddWeight"}
    /\ last.old = -1
    /\ \E n \in NetIDs : Count(n) > 0
    /\ \E n \in NetIDs : n \notin DOMAIN validators

----------------------------------------------------------------------------
(* C10 *)

\* C10: every record the registry holds has Light = Weight, so GetWeight and
\* TotalWeight answer as GetLight and TotalLight do.
LightEqualsWeightAlias ==
    /\ \A n \in NetIDs, v \in NodeIDs :
          GetValidator(n, v).ok =>
              /\ heap[GetValidator(n, v).val].Light = heap[GetValidator(n, v).val].Weight
              /\ GetWeight(n, v) = heap[GetValidator(n, v).val].Weight
    /\ \A n \in NetIDs : TotalWeight(n) = TotalLight(n)

\* a record's weight was changed by AddWeight or by a partial RemoveWeight
LightEqualsWeightAliasWitness ==
    /\ last.op \in {"AddWeight", "RemoveWeight"}
    /\ last.old > 0
    /\ last.arg > 0
    /\ GetValidator(last.net, last.node).ok
    /\ GetLight(last.net, last.node) # last.old

----------------------------------------------------------------------------
(* C11 *)

Min(a, b) == IF a <= b THEN a ELSE b

\* C11: Sample(n, k) with k >= 0 returns, without error, exactly
\* min(k, population) node IDs, all distinct and all with a record in n: the
\* whole population when k exceeds it, nothing when n is absent or empty.
SampleReturnsDistinctMembers ==
    \A n \in NetIDs, k \in SampleSizes : \A r \in Sample(n, k) :
        /\ r.err = NilErr
        /\ Len(r.val) = Min(k, Count(n))
        /\ \A i, j \in 1..Len(r.val) : r.val[i] = r.val[j] => i = j
        /\ \A i \in 1..Len(r.val) : GetValidator(n, r.val[i]).ok
        /\ k > Count(n) => Range(r.val) = GetValidatorIDs(n)
        /\ Count(n) = 0 => r.val = << >>

\* one network holds two records and the other is absent: a sample of one can
\* be either node, a sample of more is both nodes, the absent network gives
\* nothing
SampleReturnsDistinctMembersWitness ==
    /\ Count("netA") = 2
    /\ "netB" \notin DOMAIN validators
    /\ {r.val : r \in Sample("netA", 1)} = {<<"v1">>, <<"v2">>}
    /\ \A r \in Sample("netA", MaxSample) : Len(r.val) = 2
    /\ Sample("netB", 1) = {[val |-> << >>, err |-> NilErr]}

----------------------------------------------------------------------------
(* C12 *)

\* the sum, in the naturals, of the weights of the members of nodeIDs that
\* have a record in n
RECURSIVE ExactSubsetWeight(_, _)
ExactSubsetWeight(n, nodeIDs) ==
    IF nodeIDs = {} THEN 0
    ELSE LET v == CHOOSE x \in nodeIDs : TRUE
             w == IF GetValidator(n, v).ok
                  THEN heap[GetValidator(n, v).val].Weight ELSE 0
         IN  w + ExactSubsetWeight(n, nodeIDs \ {v})

\* C12: SubsetWeight(n, ids) returns, without error, the sum of the weights
\* of exactly the members of ids that have a record in n; 0 for an empty
\* subset and for an absent network.
SubsetWeightIsExactSum ==
    \A n \in NetIDs, nodeIDs \in SUBSET NodeIDs :
        SubsetWeight(n, nodeIDs) = [val |-> ExactSubsetWeight(n, nodeIDs), err |-> NilErr]

----------------------------------------------------------------------------
(* C13 *)

\* the sum, in the naturals, of the weights of the records under keys
RECURSIVE SumOfWeights(_, _)
SumOfWeights(set, keys) ==
    IF keys = {} THEN 0
    ELSE LET k == CHOOSE x \in keys : TRUE
         IN  set[k].Weight + SumOfWeights(set, keys \ {k})

InputSum == SumOfWeights(vdrSet, DOMAIN vdrSet)

\* the record carries bytes that decode to a public key
Keyed(vdr) ==
    Len(vdr.PublicKey) > 0 /\ PublicKeyFromCompressedBytes(vdr.PublicKey).err = NilErr

\* the canonical bytes of the key a keyed record carries
CanonicalBytes(vdr) ==
    PublicKeyToUncompressedBytes(PublicKeyFromCompressedBytes(vdr.PublicKey).pk)

Returned == ret # NoRet
Succeeded == Returned /\ ret.err = NilErr

\* C13: when FlattenValidatorSet succeeds, TotalWeight is the sum of the
\* weights of all input records, those without a decodable key included; an
\* empty (or nil) input gives no validators and TotalWeight 0 without error.
TotalWeightIsInputSum ==
    /\ Succeeded => ret.set.TotalWeight = InputSum
    /\ (Returned /\ vdrSet = EmptyMap) => ret = [set |-> EmptyCanonicalSet, err |-> NilErr]

\* a call succeeded on a snapshot holding a record without key, a record with
\* an undecodable key and a record with a key, each of weight 1
TotalWeightIsInputSumWitness ==
    /\ Succeeded
    /\ \E a, b, c \in DOMAIN vdrSet :
          /\ vdrSet[a].PublicKey = << >> /\ vdrSet[a].Weight = 1
          /\ ~Keyed(vdrSet[b]) /\ Len(vdrSet[b].PublicKey) > 0 /\ vdrSet[b].Weight = 1
          /\ Keyed(vdrSet[c]) /\ vdrSet[c].Weight = 1
    /\ ret.set.TotalWeight = 3

----------------------------------------------------------------------------
(* C14 *)

\* the keys of the records that decode to the canonical bytes b
Contributors(b) == {k \in DOMAIN vdrSet : Keyed(vdrSet[k]) /\ CanonicalBytes(vdrSet[k]) = b}

\* the canonical bytes of the keyed records
InputKeys == {CanonicalBytes(vdrSet[k]) : k \in {x \in DOMAIN vdrSet : Keyed(vdrSet[x])}}

\* C14: in a returned set no two entries share canonical key bytes: the
\* records decoding to one key are merged into one entry whose weight is the
\* sum of theirs and whose NodeIDs holds each of their NodeIDs once and no
\* other.
OneEntryPerKey ==
    Succeeded =>
        LET V == ret.set.Validators
        IN  /\ \A i, j \in 1..Len(V) : V[i].PublicKeyBytes = V[j].PublicKeyBytes => i = j
            /\ {V[i].PublicKeyBytes : i \in 1..Len(V)} = InputKeys
            /\ \A i \in 1..Len(V) :
                  LET c == Contributors(V[i].PublicKeyBytes)
                  IN  /\ V[i].Weight = SumOfWeights(vdrSet, c)
                      /\ Range(V[i].NodeIDs) = {vdrSet[k].NodeID : k \in c}
                      /\ Len(V[i].NodeIDs) = Cardinality(c)
                      /\ V[i].PublicKeyBytes = PublicKeyToUncompressedBytes(V[i].PublicKey)

\* a call succeeded on a snapshot in which two records of different weight
\* share a key and a third has another key
OneEntryPerKeyWitness ==
    /\ Succeeded
    /\ Len(ret.set.Validators) = 2
    /\ \E i \in 1..2 :
          /\ Len(ret.set.Validators[i].NodeIDs) = 2
          /\ ret.set.Validators[i].Weight = 1
    /\ Cardinality(DOMAIN vdrSet) = 3

----------------------------------------------------------------------------
(* C15 *)

\* C15: the returned sequence is sorted ascending by canonical key bytes
\* under unsigned lexicographic comparison, strictly so since keys are unique.
SortedByKeyBytes ==
    Succeeded =>
        \A i \in 1..(Len(ret.set.Validators) - 1) :
            BytesCompare(ret.set.Validators[i].PublicKeyBytes,
                         ret.set.Validators[i + 1].PublicKeyBytes) < 0

\* a call returned three entries
SortedByKeyBytesWitness ==
    /\ Succeeded
    /\ Len(ret.set.Validators) = 3
    /\ ret.set.Validators[1].PublicKeyBytes = <<1, 1>>
    /\ ret.set.Validators[3].PublicKeyBytes = <<2, 2>>

----------------------------------------------------------------------------
(* C16 *)

\* what the determinism claim compares of a result: the error, the keys in
\* their order, the merged weight per key and the total
Outcome(r) ==
    [err |-> r.err,
     keys |-> [i \in 1..Len(r.set.Validators) |->
                  <<r.set.Validators[i].PublicKeyBytes, r.set.Validators[i].Weight>>],
     TotalWeight |-> r.set.TotalWeight]

\* C16: the outcome of FlattenValidatorSet does not depend on the order in
\* which the records are visited: whatever a call returned, a call visiting
\* the same snapshot in any other order fails as it did or succeeds with the
\* same keys in the same order, the same weight per key and the same total.
FlattenIsOrderIndependent ==
    Returned => \A r \in FlattenValidatorSet(vdrSet) : Outcome(r) = Outcome(ret)

\* a call succeeded on three records, two of them sharing a key, and another
\* visiting order gives a result that differs from the one returned (in the
\* order of the NodeIDs of the merged entry)
FlattenIsOrderIndependentWitness ==
    /\ Succeeded
    /\ Cardinality(DOMAIN vdrSet) = 3
    /\ Len(ret.set.Validators) = 2
    /\ \E r \in FlattenValidatorSet(vdrSet) : r # ret

----------------------------------------------------------------------------
(* C17 *)

\* C17: FlattenValidatorSet fails, with ErrWeightOverflow, exactly when the
\* sum of all input weights exceeds the largest uint64, whatever keys the
\* records carry, and then returns the empty set; a snapshot whose weights
\* sum to exactly the largest uint64 succeeds with that total.
OverflowExactlyWhenSumExceeds ==
    Returned =>
        /\ ret.err \in {NilErr, ErrWeightOverflow}
        /\ ret.err = ErrWeightOverflow <=> InputSum > MaxUint64
        /\ ret.err = ErrWeightOverflow => ret.set = EmptyCanonicalSet
        /\ InputSum = MaxUint64 => (ret.err = NilErr /\ ret.set.TotalWeight = MaxUint64)

\* a call failed on two records sharing one key whose weights are the largest
\* uint64 and 1
OverflowExactlyWhenSumExceedsWitness ==
    /\ Returned
    /\ ret.err = ErrWeightOverflow
    /\ Cardinality(DOMAIN vdrSet) = 2
    /\ \E a, b \in DOMAIN vdrSet :
          /\ vdrSet[a].Weight = MaxUint64 /\ vdrSet[b].Weight = 1
          /\ Keyed(vdrSet[a]) /\ vdrSet[a].PublicKey = vdrSet[b].PublicKey

----------------------------------------------------------------------------
(* C18 *)

\* the snapshot with the key bytes of the record under k taken away
WithoutKey(set, k) == [set EXCEPT ![k].PublicKey = << >>]

\* C18: a record whose key bytes are empty or do not decode never makes the
\* call fail and contributes neither an entry nor a NodeID; its weight is in
\* TotalWeight, and the call returns what it returns when the record carries
\* no key bytes at all.
KeylessRecordOnlyCounts ==
    Returned =>
        \A k \in DOMAIN vdrSet : ~Keyed(vdrSet[k]) =>
            /\ ret.err # NilErr => InputSum > MaxUint64
            /\ ret \in FlattenValidatorSet(WithoutKey(vdrSet, k))
            /\ Succeeded =>
                  /\ \A i \in 1..Len(ret.set.Validators) :
                        /\ vdrSet[k].NodeID \notin Range(ret.set.Validators[i].NodeIDs)
                        /\ ret.set.Validators[i].PublicKeyBytes \in InputKeys
                  /\ ret.set.TotalWeight =
                        vdrSet[k].Weight + SumOfWeights(vdrSet, DOMAIN vdrSet \ {k})

\* a call succeeded on a record with undecodable key bytes and weight 2 and a
\* record with a key and weight 1: one entry of weight 1, total 3
KeylessRecordOnlyCountsWitness ==
    /\ Succeeded
    /\ Cardinality(DOMAIN vdrSet) = 2
    /\ \E a, b \in DOMAIN vdrSet :
          /\ vdrSet[a].PublicKey = <<9>> /\ vdrSet[a].Weight = MaxUint64 - 1
          /\ Keyed(vdrSet[b]) /\ vdrSet[b].Weight = 1
    /\ Len(ret.set.Validators) = 1
    /\ ret.set.Validators[1].Weight = 1
    /\ ret.set.TotalWeight = MaxUint64

----------------------------------------------------------------------------
(* C19 *)

\* the sum of the Weight fields of the entries at the positions given
RECURSIVE SumOfEntries(_, _)
SumOfEntries(V, positions) ==
    IF positions = {} THEN 0
    ELSE LET i == CHOOSE x \in positions : TRUE
         IN  V[i].Weight + SumOfEntries(V, positions \ {i})

CanonicalSum == SumOfEntries(ret.set.Validators, 1..Len(ret.set.Validators))

\* C19: in a returned set TotalWeight is at least the sum of the entries'
\* Weight, and equal to it exactly when every input record of non-zero weight
\* carries a decodable key.
TotalWeightBoundsCanonicalSum ==
    Succeeded =>
        /\ ret.set.TotalWeight >= CanonicalSum
        /\ ret.set.TotalWeight = CanonicalSum <=>
              \A k \in DOMAIN vdrSet : vdrSet[k].Weight # 0 => Keyed(vdrSet[k])

\* a call succeeded on a record without key and without weight and two keyed
\* records with weight: the total equals the sum of the entries
TotalWeightBoundsCanonicalSumWitness ==
    /\ Succeeded
    /\ \E a \in DOMAIN vdrSet : ~Keyed(vdrSet[a]) /\ vdrSet[a].Weight = 0
    /\ Len(ret.set.Validators) = 2
    /\ ret.set.TotalWeight = CanonicalSum
    /\ CanonicalSum = 2

----------------------------------------------------------------------------
(* C20 *)

\* the indices of the set bits of the selector
SetBits == {i \in 0..MaxVdrs : Contains(indices, i)}

\* C20: FilterValidators(indices, vdrs) fails, with ErrUnknownValidator and no
\* validators, exactly when some set bit of the selector has an index >=
\* len(vdrs): a bit at index len(vdrs) fails, a selector whose highest set bit
\* is len(vdrs) - 1 succeeds, and a successful result holds one validator per
\* set bit, neither fewer nor more.
FilterFailsExactlyOnOutOfRangeBit ==
    filtered # NoRet =>
        /\ filtered.err \in {NilErr, ErrUnknownValidator}
        /\ filtered.err = ErrUnknownValidator <=> \E i \in SetBits : i >= Len(vdrs)
        /\ filtered.err = ErrUnknownValidator => filtered.vdrs = << >>
        /\ filtered.err = NilErr => Len(filtered.vdrs) = Cardinality(SetBits)

\* a call failed on a list of two validators and a selector whose only set
\* bit is bit 2
FilterFailsExactlyOnOutOfRangeBitWitness ==
    /\ filtered # NoRet
    /\ filtered.err = ErrUnknownValidator
    /\ Len(vdrs) = 2
    /\ SetBits = {2}

----------------------------------------------------------------------------
(* C21 *)

\* the positions of list whose bit is set in b
SelectedPositions(b, list) == {i \in 1..Len(list) : Contains(b, i - 1)}

\* the validators at these positions, in the order of the list
ExpectedSelection(b, list) ==
    LET P == SelectedPositions(b, list)
        nth(j) == CHOOSE i \in P : Cardinality({k \in P : k < i}) = j - 1
    IN  [j \in 1..Cardinality(P) |-> list[nth(j)]]

\* C21: a successful FilterValidators returns exactly the validators at the
\* positions whose bit is set, once each and in the order of the input, and
\* leaves the input as it was; a selector with no bit set returns an empty
\* result and no error, whatever the input.
FilterSelectsInOrder ==
    [][(filtered = NoRet /\ filtered' # NoRet) =>
          /\ vdrs' = vdrs
          /\ indices' = indices
          /\ filtered'.err = NilErr => filtered'.vdrs = ExpectedSelection(indices, vdrs)
          /\ indices = 0 => filtered' = [vdrs |-> << >>, err |-> NilErr]]_vars

\* a call with bits 0 and 2 set on three validators, the first and the last
\* different, returned the first and the last in this order
FilterSelectsInOrderWitness ==
    /\ filtered # NoRet
    /\ filtered.err = NilErr
    /\ Len(vdrs) = 3
    /\ SetBits = {0, 2}
    /\ vdrs[1] # vdrs[3]
    /\ filtered.vdrs = <<vdrs[1], vdrs[3]>>

----------------------------------------------------------------------------
(* C22 *)

\* the sum, in the naturals, of the Weight fields of a list
RECURSIVE ExactListWeight(_)
ExactListWeight(list) ==
    IF list = << >> THEN 0 ELSE Head(list).Weight + ExactListWeight(Tail(list))

\* C22: SumWeight(vdrs) returns the exact sum of the Weight fields when it is
\* at most the largest uint64 (0 for an empty list) and otherwise
\* ErrWeightOverflow with the value 0, never a wrapped or partial sum.
SumWeightIsExactOrOverflow ==
    summed # NoRet =>
        IF ExactListWeight(sumOf) <= MaxUint64
        THEN summed = [val |-> ExactListWeight(sumOf), err |-> NilErr]
        ELSE summed = [val |-> 0, err |-> ErrWeightOverflow]

\* a call failed on a list that starts with weight 1 and goes on with the
\* largest uint64: the value returned is 0, not 1
SumWeightIsExactOrOverflowWitness ==
    /\ summed # NoRet
    /\ summed.err = ErrWeightOverflow
    /\ summed.val = 0
    /\ Len(sumOf) >= 2
    /\ sumOf[1].Weight = 1
    /\ sumOf[2].Weight = MaxUint64

----------------------------------------------------------------------------
(* C23 *)

\* the snapshot {v1: (keyX, a), v2: (keyX, b), v3: (no key, c)}; the weights
\* 100, 200 and 50 of the scenario are one choice of a, b and c among those
\* whose sum fits in a uint64
ScenarioSnapshot ==
    /\ DOMAIN vdrSet = {"v1", "v2", "v3"}
    /\ vdrSet["v1"].PublicKey = KeyBytes("keyX")
    /\ vdrSet["v2"].PublicKey = KeyBytes("keyX")
    /\ vdrSet["v3"].PublicKey = << >>
    /\ \A k \in DOMAIN vdrSet : vdrSet[k].NodeID = k /\ vdrSet[k].Weight > 0
    /\ InputSum <= MaxUint64

\* C23: on the snapshot {A: (keyX, a), B: (keyX, b), C: (no key, c)}
\* FlattenValidatorSet returns one entry for keyX with weight a + b and
\* contributors {A, B}, and TotalWeight a + b + c; FilterValidators with only
\* bit 0 set selects that entry; SumWeight of the selection is a + b; whether
\* the snapshot is passed directly or staked with AddStaker and read back
\* with GetMap.
EndToEndScenario ==
    ScenarioSnapshot =>
        LET ab == vdrSet["v1"].Weight + vdrSet["v2"].Weight
            V == ret.set.Validators
        IN  /\ Returned =>
                  /\ ret.err = NilErr
                  /\ Len(V) = 1
                  /\ V[1].PublicKeyBytes = <<1, 2>>
                  /\ V[1].Weight = ab
                  /\ Len(V[1].NodeIDs) = 2
                  /\ Range(V[1].NodeIDs) = {"v1", "v2"}
                  /\ ret.set.TotalWeight = ab + vdrSet["v3"].Weight
            /\ (filtered # NoRet /\ indices = 1) =>
                  filtered = [vdrs |-> <<V[1]>>, err |-> NilErr]
            /\ (summed # NoRet /\ indices = 1) =>
                  summed = [val |-> ab, err |-> NilErr]

\* the scenario was staked in the registry, read back with GetMap, flattened,
\* filtered with bit 0 and summed
EndToEndScenarioWitness ==
    /\ ScenarioSnapshot
    /\ Count("netA") = 3
    /\ DOMAIN snap = {"v1", "v2", "v3"}
    /\ indices = 1
    /\ summed # NoRet
    /\ summed.val = 2
    /\ ret.set.TotalWeight = 3

----------------------------------------------------------------------------
(* C24: reads and the writers' critical sections                           *)

\* C24: no thread reads a record of the registry while another thread is
\* inside a mutating critical section: every iteration of the loop in which
\* TotalLight reads a record's weight is taken while no writer holds the lock
NoReadInsideWriterSection ==
    [][\A t \in Threads :
          (/\ pc[t] = "TotalLight.sum"
           /\ pc'[t] = "TotalLight.sum"
           /\ Len(loc'[t].todo) < Len(loc[t].todo))
          => mu = ""]_vars

----------------------------------------------------------------------------
(* C25: what a read returns while writers run                              *)

\* C25: the value TotalLight(network) returns is the network's total weight
\* in one of the states the registry has been in
TotalLightIsSomeTotal ==
    last.op = "TotalLight" => last.arg \in totals[last.net]

----------------------------------------------------------------------------
(* C26: every call returns and the lock is released                        *)

\* C26: under fair scheduling every invoked AddWeight and RemoveWeight
\* eventually returns, and whenever the lock is held it is eventually free
\* again, the early-return paths included
EveryCallReturns ==
    /\ \A t \in Threads : (pc[t] # "idle") ~> (pc[t] = "idle")
    /\ (mu # "") ~> (mu = "")

\* a thread waits in Lock() while the other is about to leave AddWeight or
\* RemoveWeight by an early return
EveryCallReturnsWitness ==
    \E t \in Threads, u \in Threads :
        /\ pc[t] \in {"AddWeight.lock", "RemoveWeight.lock"}
        /\ mu = u
        /\ pc[u] \in {"AddWeight.unlock", "RemoveWeight.unlock"}
        /\ loc[u].old = -1

----------------------------------------------------------------------------
(* C27: dispatch by network                                                *)

\* the SetCalculator calls made for network n with a calculator, in order
Registrations(n) == SelectSeq(started, LAMBDA r : r[1] = n /\ r[2] # NilCalculator)

\* the strategy the calls made so far leave in charge of network n
InCharge(n) ==
    IF Registrations(n) = << >>
    THEN fallback
    ELSE Registrations(n)[Len(Registrations(n))][2]

\* C27: every Calculate* call for a network returns what the calculator most
\* recently registered for it with a non-nil SetCalculator returns, and what
\* the fallback returns when there is none; the fallback is NoOp by default
\* and when nil was supplied; SetCalculator for one network changes no other
\* network's calculator, and SetCalculator(nil) changes none
DispatchFollowsRegistration ==
    /\ [](last.op \in CalculateOps => last.arg = ResultOf(InCharge(last.net), last.op))
    /\ [](\A n \in NetIDs : Lookup(n) = InCharge(n))
    /\ (last.op = "NewLockedCalculator" => fallback = "NoOpCalculator")
    /\ (last.op = "NewLockedCalculatorWithFallback" =>
           fallback = IF last.node = NilCalculator THEN "NoOpCalculator" ELSE last.node)
    /\ [][/\ fallback' = fallback
          /\ last'.op = "SetCalculator" =>
                \A n \in NetIDs :
                    (n # last'.net \/ last'.node = NilCalculator) => Lookup(n)' = Lookup(n)]_vars

\* a network with a registration followed by SetCalculator(nil), read while
\* the other network has none
DispatchFollowsRegistrationWitness ==
    /\ last.op = "CalculateUptimePercent"
    /\ \E n \in NetIDs, i \in 1..Len(started) :
           /\ i < Len(started)
           /\ started[i] = <<n, "ZeroUptimeCalculator">>
           /\ started[i + 1] = <<n, NilCalculator>>
           /\ last.net = n
           /\ last.arg = <<0>>
           /\ fallback = "NoOpCalculator"
           /\ \A m \in NetIDs \ {n} : Registrations(m) = << >>

----------------------------------------------------------------------------
(* C28: readers while the writer alternates strategies                     *)

\* the strategies whose result a read may return: the fallback and those of
\* the SetCalculator calls started for the network
MayAnswer(n) == {fallback} \cup {started[i][2] : i \in {j \in 1..Len(started) : started[j][1] = n}}

\* C28: all goroutines run to completion, and every result a reader gets is
\* the whole result of one strategy, the fallback or one passed to a
\* SetCalculator call that had started when the read returned
ReadersSeeOneStrategy ==
    /\ [](last.op \in CalculateOps =>
             \E c \in MayAnswer(last.net) : last.arg = ResultOf(c, last.op))
    /\ <>(\A t \in UptimeWriters \cup UptimeReaders : pc[t] = "done")

\* a reader got the second strategy's pair while the other reader holds the
\* shared lock and the writer waits for it
ReadersSeeOneStrategyWitness ==
    /\ last.op = "CalculateUptime"
    /\ last.arg = <<0, 1>>
    /\ \E t \in UptimeReaders : t \in lmu.readers /\ t # last.node
    /\ \E t \in UptimeWriters : pc[t] = "SetCalculator.lock"

----------------------------------------------------------------------------
(* C29: the errors of the canonical set functions                          *)

----------------------------------------------------------------------------
(* C30: networks counted and networks with validators                      *)

\* C30: a network has an entry in the registry if and only if it has at
\* least one validator record, so NumNets() is the number of networks with
\* Count(network) > 0
NetworkEntryIffRecords ==
    /\ \A n \in NetIDs : n \in DOMAIN validators <=> Count(n) > 0
    /\ NumNets = Cardinality({n \in NetIDs : Count(n) > 0})

----------------------------------------------------------------------------
(* C31: a mutation changes only the record it is addressed to              *)

\* the record stored for (n, v) in the registry (vals, h), if any
RecordAt(vals, h, n, v) ==
    IF n \in DOMAIN vals /\ v \in DOMAIN vals[n] THEN {h[vals[n][v]]} ELSE {}

\* C31: AddStaker, AddWeight and RemoveWeight addressed to (network, node)
\* leave every other record as it was, present or absent, in the same and
\* in every other network, and a network that keeps other records keeps
\* its entry
MutationLeavesOthers ==
    [][last'.op \in {"AddStaker", "AddWeight", "RemoveWeight"} =>
          /\ \A n \in NetIDs, v \in NodeIDs :
                 (n # last'.net \/ v # last'.node) =>
                     RecordAt(validators', heap', n, v) = RecordAt(validators, heap, n, v)
          /\ \A n \in DOMAIN validators :
                 (\E v \in DOMAIN validators[n] : n # last'.net \/ v # last'.node) =>
                     n \in DOMAIN validators']_vars

\* RemoveWeight has deleted a record of a network that keeps another one,
\* while the other network has records too
MutationLeavesOthersWitness ==
    /\ last.op = "RemoveWeight"
    /\ last.old # -1
    /\ last.node \notin GetValidatorIDs(last.net)
    /\ Count(last.net) > 0
    /\ \E n \in NetIDs \ {last.net} : Count(n) > 0

----------------------------------------------------------------------------
(* C32: the boundary between bit length and sequence length                *)

\* C32 as stated: FilterValidators fails with ErrUnknownValidator when the
\* selector's bit length equals the length of the sequence
FilterFailsAtEqualLength ==
    (filtered # NoRet /\ BitLen(indices) = Len(vdrs)) => filtered.err = ErrUnknownValidator

\* C32: FilterValidators fails with ErrUnknownValidator exactly when the
\* selector's bit length is greater than the length of the sequence; at
\* equal lengths it succeeds and returns the whole sequence when every bit
\* below the length is set
FilterFailsOnlyAboveLength ==
    filtered # NoRet =>
        /\ filtered.err = ErrUnknownValidator <=> BitLen(indices) > Len(vdrs)
        /\ BitLen(indices) = Len(vdrs) => filtered.err = NilErr
        /\ indices = 2 ^ Len(vdrs) - 1 => filtered.vdrs = vdrs

\* a selector with every bit of a sequence of two or more set, bit length
\* equal to the length, has selected the whole sequence
FilterFailsOnlyAboveLengthWitness ==
    /\ filtered # NoRet
    /\ Len(vdrs) >= 2
    /\ indices = 2 ^ Len(vdrs) - 1
    /\ BitLen(indices) = Len(vdrs)
    /\ filtered.err = NilErr
    /\ filtered.vdrs = vdrs

----------------------------------------------------------------------------
(* C33: a listener that re-enters the registry                             *)

\* thread t is inside a listener's callback, waiting for the lock it holds
Reentered(t) == pc[t] = "AddWeight.lock" /\ mu = t

\* C33: listeners are notified while the notifying thread holds the
\* exclusive lock; once a listener has called back into the registry, its
\* thread stays in that call for ever with the lock held, and no operation
\* of another thread gets the lock or returns
ReentryBlocksEveryone ==
    /\ [](\A t \in Threads : pc[t] \in {"AddStaker.notify", "Register.replay"} => mu = t)
    /\ [][\A t \in Threads :
             Reentered(t) =>
                 /\ pc'[t] = "AddWeight.lock"
                 /\ mu' = t
                 /\ validators' = validators
                 /\ \A u \in Threads \ {t} :
                        /\ pc[u] \in {"idle", "AddWeight.lock"}
                        /\ pc'[u] \in {pc[u], "AddWeight.lock"}]_vars

\* a listener called from AddStaker has called back, and the other thread
\* waits in AddWeight
ReentryBlocksEveryoneWitness ==
    \E t \in Threads, u \in Threads :
        /\ t # u
        /\ Reentered(t)
        /\ loc[t].old = -1
        /\ loc[t].listener = ""
        /\ pc[u] = "AddWeight.lock"

----------------------------------------------------------------------------
(* C34: the read accessors agree                                           *)

\* the sum of GetLight(n, v) over the identities ids, not reduced to 64 bits
RECURSIVE SumOfGetLight(_, _)
SumOfGetLight(n, ids) ==
    IF ids = {} THEN 0
    ELSE LET v == CHOOSE x \in ids : TRUE
         IN  GetLight(n, v) + SumOfGetLight(n, ids \ {v})

\* C34: in every state reached by AddStaker, AddWeight and RemoveWeight and
\* for every network, Count, NumValidators, the size of GetMap, the number
\* of GetValidatorIDs and GetValidators().Len() are equal, and when the sum
\* of GetLight over those identities fits in 64 bits it is what TotalLight
\* and SubsetWeight of all those identities return
AccessorsAgree ==
    \A n \in NetIDs :
        /\ NumValidators(n) = Count(n)
        /\ Cardinality(DOMAIN GetMap(n)) = Count(n)
        /\ Cardinality(GetValidatorIDs(n)) = Count(n)
        /\ GetValidators(n).Len = Count(n)
        /\ SumOfGetLight(n, GetValidatorIDs(n)) <= MaxUint64 =>
               /\ TotalLight(n).val = SumOfGetLight(n, GetValidatorIDs(n))
               /\ SubsetWeight(n, GetValidatorIDs(n)).val = SumOfGetLight(n, GetValidatorIDs(n))

\* after a RemoveWeight one network has two records, one of them of weight
\* 0, with a total that fits, and the other network has one
AccessorsAgreeWitness ==
    /\ last.op = "RemoveWeight"
    /\ \E n \in NetIDs, m \in NetIDs :
           /\ Count(n) = 2
           /\ \E v \in GetValidatorIDs(n) : GetLight(n, v) = 0
           /\ TotalLight(n).val = 2
           /\ Count(m) = 1

----------------------------------------------------------------------------
(* C35: what a read returned, after later mutations                        *)

\* C35: the map GetMap returned keeps its key set and the weight of each
\* record reached through it, whatever AddStaker, AddWeight or RemoveWeight
\* calls are made on the registry afterwards
SnapshotIsStable ==
    [][last'.op \in {"AddStaker", "AddWeight", "RemoveWeight"} =>
          /\ DOMAIN snap' = DOMAIN snap
          /\ \A k \in DOMAIN snap : heap'[snap'[k]].Light = heap[snap[k]].Light]_vars

----------------------------------------------------------------------------
(* C36: the callbacks the registry makes                                   *)

\* the validators a listener holds that adds one at each OnValidatorAdded
\* and would drop one at an OnValidatorRemoved
Tracked(log) == {<<log[i][1], log[i][2]>> : i \in 1..Len(log)}

\* C36: AddWeight and RemoveWeight call no listener, also when RemoveWeight
\* deletes the record, and every call a listener receives is an
\* OnValidatorAdded made by AddStaker or RegisterCallbackListener; so a
\* listener that was told of a validator still holds it after its record is
\* deleted and GetValidator reports it absent
OnlyAddedIsNotified ==
    [][/\ last'.op \in {"AddWeight", "RemoveWeight"} => added' = added
       /\ \A l \in ListenerIDs :
              /\ Len(added'[l]) >= Len(added[l])
              /\ \A i \in (Len(added[l]) + 1)..Len(added'[l]) :
                     added'[l][i][4] \in {"AddStaker", "RegisterCallbackListener"}
       /\ (last'.op = "RemoveWeight" /\ RecordAt(validators', heap', last'.net, last'.node) = {}) =>
              \A l \in ListenerIDs :
                  <<last'.net, last'.node>> \in Tracked(added[l]) =>
                      <<last'.net, last'.node>> \in Tracked(added'[l])]_vars

\* RemoveWeight has deleted a record that a registered listener was told
\* of, and another record has had weight added
OnlyAddedIsNotifiedWitness ==
    /\ last.op = "RemoveWeight"
    /\ last.old = 1
    /\ ~GetValidator(last.net, last.node).ok
    /\ \E l \in Range(listeners) : <<last.net, last.node>> \in Tracked(added[l])
    /\ \E v \in GetValidatorIDs(last.net) : GetLight(last.net, v) = 2

----------------------------------------------------------------------------
(* C37: AddWeight followed by RemoveWeight of the same amount              *)

\* C37: when AddWeight(network, node, delta) on an existing record of weight
\* w is followed by RemoveWeight(network, node, delta), the record exists
\* with weight w again
AddThenRemoveRestores ==
    [][(/\ last.op = "AddWeight"
        /\ last.old # -1
        /\ last'.op = "RemoveWeight"
        /\ last'.net = last.net
        /\ last'.node = last.node
        /\ last'.arg = last.arg)
       => /\ RecordAt(validators', heap', last.net, last.node) # {}
          /\ \A r \in RecordAt(validators', heap', last.net, last.node) : r.Light = last.old]_vars


----------------------------------------------------------------------------
(* C38 *)

\* the entry the pending record under key k would be merged into: its map
\* key in a set, or the empty set when the record has no usable key or its
\* key is new
MergeTarget(k) ==
    LET dec == PublicKeyFromCompressedBytes(vdrSet[k].PublicKey)
        pkBytes == PublicKeyToUncompressedBytes(dec.pk)
    IN  IF Len(vdrSet[k].PublicKey) = 0 \/ DecodeFailed(dec) THEN {}
        ELSE {pkBytes} \cap DOMAIN pkToValidator

\* C38: at every point of the loop of FlattenValidatorSet each merged weight
\* is at most the running total, and a pending record whose merge addition
\* would overflow is one whose total-weight addition overflows first, so the
\* merge check is never the one that fires.
MergeNeverOverflowsFirst ==
    ret = NoRet =>
        /\ \A key \in DOMAIN pkToValidator : pkToValidator[key].Weight <= totalWeight
        /\ \A k \in todo : \A key \in MergeTarget(k) :
               Add64(pkToValidator[key].Weight, vdrSet[k].Weight).err # NilErr
                   => AddToTotal(totalWeight, vdrSet[k]).err # NilErr

\* the loop stands before a record whose merge addition would overflow
MergeNeverOverflowsFirstWitness ==
    /\ ret = NoRet
    /\ \E k \in todo : \E key \in MergeTarget(k) :
           /\ pkToValidator[key].Weight > 0
           /\ Add64(pkToValidator[key].Weight, vdrSet[k].Weight).err # NilErr


----------------------------------------------------------------------------
(* C39 *)

\* the selector with exactly the bits 0..n-1 set
FullSelector(n) == 2 ^ n - 1

\* C39: on the validators of a set returned successfully by
\* FlattenValidatorSet, for every selector FilterValidators accepts,
\* SumWeight of the filtered validators succeeds with a value at most the
\* set's TotalWeight, and for the full selector the value is the sum of the
\* weights of all entries.
QuorumWeightWithinTotal ==
    (/\ ret # NoRet
     /\ ret.err = NilErr
     /\ filtered # NoRet
     /\ filtered.err = NilErr
     /\ summed # NoRet)
        => /\ summed.err = NilErr
           /\ summed.val <= ret.set.TotalWeight
           /\ indices = FullSelector(Len(ret.set.Validators))
                  => summed.val = ExactListWeight(ret.set.Validators)

\* the full selector on a set of two entries whose weights add up to the
\* largest uint64, summed to exactly the set's total
QuorumWeightWithinTotalWitness ==
    /\ ret # NoRet
    /\ ret.err = NilErr
    /\ filtered # NoRet
    /\ filtered.err = NilErr
    /\ summed # NoRet
    /\ Len(ret.set.Validators) = 2
    /\ indices = FullSelector(2)
    /\ summed.val = MaxUint64
    /\ summed.val = ret.set.TotalWeight

====
